---- MODULE Spec2Model ----
(***************************************************************************)
(* Model of the robopet-web dashboard pollers.                             *)
(*                                                                         *)
(* Three variants of the Home component poll the backend for alerts:       *)
(*   - src/unnamed/part_001: the seen-id poller (seenAlertIdsRef + ding),  *)
(*     specification SpecSeen;                                             *)
(*   - src/app/page.tsx: the plain poller of the media page,               *)
(*     specification SpecPage;                                             *)
(*   - src/unnamed/part_002, second component: the sound-toggle poller     *)
(*     (knownAlertIdsRef, awaited playDing), specification SpecSound.      *)
(*                                                                         *)
(* A poller is one run of the useEffect with deps [user, supabase]: it     *)
(* owns the closure variable isMounted and the interval timer.  Every      *)
(* fetchAlertsOnce call of a run is an entry of `inflight`; its field      *)
(* `live` is the isMounted of the run that started it.  The backend is the *)
(* environment: a response carries any set of alerts of the queried user.  *)
(***************************************************************************)
EXTENDS Integers, Sequences, FiniteSets

\* Number of alert ids the backend may hold.
MaxAlerts == 3
\* Number of fetchAlertsOnce calls that may be suspended at the same time.
MaxInFlight == 2

NoUser == "none"
Users == {"u1", "u2"}
Null == "null"

AlertIds == 1..MaxAlerts

\* alerts.user_id and alerts.trigger_event of the backend rows.
Owner(id) == IF id % 2 = 1 THEN "u1" ELSE "u2"
TriggerEvent(id) == (id + 1) \div 2

AlertsOf(u) == {id \in AlertIds : Owner(id) = u}

VARIABLES
  user,              \* useAuth().user: NoUser or a user id
  mounted,           \* the Home component is mounted
  intervalId,        \* the interval timer of the current poller is live
  inflight,          \* suspended fetchAlertsOnce calls, in start order
  alerts,            \* useState alerts
  loadingAlerts,     \* useState loadingAlerts
  alertsError,       \* useState alertsError
  isFirstLoadRef,    \* isFirstLoadRef.current
  seenAlertIdsRef,   \* seenAlertIdsRef.current (part_001)
  knownAlertIdsRef,  \* knownAlertIdsRef.current (part_002, second component)
  soundEnabled,      \* useState soundEnabled (part_002, second component)
  pollerSound,       \* soundEnabled as captured by the running poller's playDing
                     \* (FALSE while no poller runs)
  succeeded,         \* a fetch of the current poller has been applied (observation only)
  last,              \* what the last handler did (observation only)
  everCompleted,     \* page.tsx: some fetch completed while its poller was
                     \* running (observation only)
  dismissingById,    \* useState dismissingById: alert id -> boolean, for the
                     \* ids that were set
  dismissReqs,       \* dismissAlert calls suspended at the remote action
  eventMediaById,    \* useState eventMediaById: event id (string) -> media or
                     \* NoMedia, for the ids that were set
  resolvingMediaIdsRef,  \* resolvingMediaIdsRef.current
  probes,            \* event id (string) -> number of resolveMediaForEventId
                     \* calls for it that have not settled
  pastAlerts,        \* useState pastAlerts
  expandedPastById,  \* useState expandedPastById: alert id -> boolean, for the
                     \* ids that were set
  pastAlertsError,   \* useState pastAlertsError
  res,               \* the resolveMediaForEventId call followed step by step
                     \* (page.tsx, or part_002 first component)
  backendDismissed,  \* the alert ids whose status in the backend is
                     \* "dismissed" (set by the dismiss-alert function)
  loadingPastAlerts, \* useState loadingPastAlerts
  isFirstPastLoadRef,  \* isFirstPastLoadRef.current (page.tsx)
  pastInflight,      \* suspended fetchPastAlertsOnce calls, in start order
  timers,            \* number of live interval timers created by the effect
                     \* of the active-alerts poller
  pastTimers,        \* number of live interval timers created by the effect
                     \* of the past-alerts poller
  authState,         \* the session the auth client holds (SupabaseProvider's
                     \* environment): the user, and the number of the auth
                     \* event that produced the session object
  session,           \* SupabaseProvider: useState session
  providerMounted,   \* SupabaseProvider: isMounted of its effect; the
                     \* subscription lasts as long
  getSessionCall     \* SupabaseProvider: the supabase.auth.getSession() call
                     \* of its effect

\* State of src/app/page.tsx beyond its active-alerts poller.
dismissVars == <<dismissingById, dismissReqs>>
mediaVars == <<eventMediaById, resolvingMediaIdsRef, probes, pastAlerts,
               expandedPastById, pastAlertsError>>
\* State outside the Home component, and state of its other variants.
pastVars == <<loadingPastAlerts, isFirstPastLoadRef, pastInflight>>
providerVars == <<authState, session, providerMounted, getSessionCall>>
otherVars == <<backendDismissed, pastVars, timers, pastTimers, providerVars>>
pageVars == <<everCompleted, dismissingById, dismissReqs, eventMediaById,
              resolvingMediaIdsRef, probes, pastAlerts, expandedPastById,
              pastAlertsError, res, otherVars>>

vars == <<user, mounted, intervalId, inflight, alerts, loadingAlerts,
          alertsError, isFirstLoadRef, seenAlertIdsRef, knownAlertIdsRef,
          soundEnabled, pollerSound, succeeded, last, everCompleted,
          dismissingById, dismissReqs, eventMediaById,
          resolvingMediaIdsRef, probes, pastAlerts, expandedPastById,
          pastAlertsError, res, otherVars>>

----------------------------------------------------------------------------
\* Helpers

RECURSIVE SetMax(_)
SetMax(S) == LET x == CHOOSE y \in S : TRUE
             IN IF S = {x} THEN x
                ELSE LET m == SetMax(S \ {x}) IN IF x > m THEN x ELSE m

\* .order("created_at", { ascending: false }): newer alerts have larger ids.
RECURSIVE OrderDesc(_)
OrderDesc(S) == IF S = {} THEN <<>>
                ELSE LET m == SetMax(S) IN <<m>> \o OrderDesc(S \ {m})

RemoveAt(s, i) == [j \in 1..(Len(s) - 1) |-> IF j < i THEN s[j] ELSE s[j + 1]]

\* A key that keeps the representation of the id.
StrKeepsType(x) == x

\* An id of the events table arrives as a number or as a string: <<"num", n>>
\* or <<"str", n>>.  String(x) turns both into the string.
Str(x) == <<"str", x[2]>>

\* alerts.trigger_event as the backend sends it: a number on the rows with an
\* odd event number, a string on the others.
TriggerEventOf(id) ==
  IF TriggerEvent(id) % 2 = 1 THEN <<"num", TriggerEvent(id)>>
  ELSE <<"str", TriggerEvent(id)>>

\* events.id as the backend sends it: always a number.
EventRow(n) == [id |-> <<"num", n>>, type |-> "fall_detected"]

\* String(a.trigger_event) of every alert the backend may hold.
EventKeys == {Str(TriggerEventOf(id)) : id \in AlertIds}

\* The trigger_event of the first row alone.
EventIdsOfFirst(rows) == {TriggerEventOf(rows[1])}

\* eventIds = baseAlerts.length ? Array.from(new Set(baseAlerts.map(a => a.trigger_event))) : []
EventIdsOf(rows) == {TriggerEventOf(rows[i]) : i \in 1..Len(rows)}

\* The events rows a lookup .in("id", eventIds) may return: the backend compares
\* by value, and any of the referenced events may be missing from the table.
EventRowsFor(eventIds) == SUBSET {EventRow(e[2]) : e \in eventIds}

\* withEvents = baseAlerts.map(a => ({...a, event: eventsById.get(String(a.trigger_event)) ?? null }))
\* eventsById = new Map(eventsData.map(e => [String(e.id), e]))
EventsById(eventsData) == {<<Str(e.id), e>> : e \in eventsData}

\* The null in the event field of an alert without event row.
NoEvent == [id |-> <<"none", 0>>, type |-> Null]

\* eventsById.get(key) ?? null
MapGet(map, key) ==
  IF \E kv \in map : kv[1] = key
  THEN (CHOOSE kv \in map : kv[1] = key)[2]
  ELSE NoEvent

WithEvents(rows, eventsData) ==
  [i \in 1..Len(rows) |->
     [id |-> rows[i],
      status |-> "active",
      trigger_event |-> TriggerEventOf(rows[i]),
      user_id |-> Owner(rows[i]),
      event |-> MapGet(EventsById(eventsData), Str(TriggerEventOf(rows[i])))]]

\* withEvents.map(a => String(a.id)): alert ids are strings already.
IdsOf(list) == {list[i].id : i \in 1..Len(list)}

\* err?.message ?? "Failed to load alerts"
ErrorMessages == {"backend error", Null}
LoadErrorSwallowed(msg) == Null
LoadErrorText(msg) == IF msg = Null THEN "Failed to load alerts" ELSE msg

\* The closure variable isMounted of the poller that started fetch f.
IsMountedAlways(f) == TRUE
IsMounted(f) == f.live

\* The identity changed from one user to another user.
Switched(from, to) == from \in Users /\ to \in Users /\ from # to

\* lookups: the id sets of the events lookups the call of page.tsx issued.
NewFetch(u, initial, switched) ==
  [stage |-> "alerts", live |-> TRUE, userId |-> u, initial |-> initial,
   switched |-> switched,
   rows |-> <<>>, list |-> <<>>, overtaken |-> FALSE,
   lookups |-> <<>>]

\* Effect cleanup: isMounted = false for every call of the poller torn down.
\* What a torn-down call no longer reads (whether it was the run's first
\* fetch, whether the run followed a change of user, whether it was
\* overtaken) is dropped with it.
TornDownKept(s) == s
TornDown(s) == [j \in 1..Len(s) |->
                  [s[j] EXCEPT !.live = FALSE, !.initial = FALSE,
                               !.switched = FALSE,
                               !.overtaken = FALSE]]

\* Observation: fetches started before fetch i are overtaken once i is applied.
Overtake(s, i) == [j \in 1..Len(s) |->
                     IF j < i THEN [s[j] EXCEPT !.overtaken = TRUE] ELSE s[j]]

\* Observation of the last step: the handler that ran (op), the isMounted of
\* its fetch (live), whether that fetch was the effect's own (initial) and the
\* effect ran for a change from one user to another (switched), the
\* number of returned ids the seen/known set did not hold (news), the playDing
\* calls made (dings), whether a later fetch had been applied before
\* (overtaken), the await that failed (stage), whether it was the first
\* fetch applied since the effect ran (firstSuccess), and for dismissAlert the
\* alert id (alert, 0 for none) and the number of rows it removed (removed),
\* the event ids a media probe was started for (started), and what the audio
\* did in a playDing call (audio).
NoLast == [op |-> "none", live |-> FALSE, initial |-> FALSE,
           switched |-> FALSE, news |-> 0,
           dings |-> 0, overtaken |-> FALSE, stage |-> "none",
           firstSuccess |-> FALSE, alert |-> 0, removed |-> 0,
           started |-> {}, audio |-> Null]

\* useState<Session | null>(null), and the auth client without a session.
NoSession == [user |-> NoUser, n |-> 0]

\* No resolveMediaForEventId call is being followed.
NoRes == [pc |-> "idle"]

Init ==
  /\ user = NoUser
  /\ mounted = TRUE
  /\ intervalId = FALSE
  /\ inflight = <<>>
  /\ alerts = <<>>
  /\ loadingAlerts = FALSE
  /\ alertsError = Null
  /\ isFirstLoadRef = TRUE
  /\ seenAlertIdsRef = {}
  /\ knownAlertIdsRef = {}
  /\ soundEnabled = FALSE
  /\ pollerSound = FALSE
  /\ succeeded = FALSE
  /\ last = NoLast
  /\ everCompleted = FALSE
  /\ dismissingById = <<>>
  /\ dismissReqs = <<>>
  /\ eventMediaById = <<>>
  /\ resolvingMediaIdsRef = {}
  /\ probes = [k \in EventKeys |-> 0]
  /\ pastAlerts = <<>>
  /\ expandedPastById = <<>>
  /\ pastAlertsError = Null
  /\ res = NoRes
  /\ backendDismissed = {}
  /\ loadingPastAlerts = FALSE
  /\ isFirstPastLoadRef = TRUE
  /\ pastInflight = <<>>
  /\ timers = 0
  /\ pastTimers = 0
  /\ authState = NoSession
  /\ session = NoSession
  /\ providerMounted = TRUE
  /\ getSessionCall = [pc |-> "reading", data |-> NoSession]

----------------------------------------------------------------------------
\* The seen-id poller of src/unnamed/part_001

\* newOnes: the ids of withEvents that seenAlertIdsRef does not hold.
NewOnes(list, seen) == {id \in IdsOf(list) : id \notin seen}

\* "Play one ding for the batch": the playDing calls made for newOnes.
DingPerAlert(newOnes) == Cardinality(newOnes)
DingCalls(newOnes) == IF Cardinality(newOnes) > 0 THEN 1 ELSE 0

\* for (const id of newOnes) seenAlertIdsRef.current.add(id)
SeenReplaced(seen, newOnes) == newOnes
SeenKept(seen, newOnes) == seen
MarkSeen(seen, newOnes) == seen \cup newOnes

\* What the audio does in a playDing call: the tone plays, there is no audio
\* context, the resume of the suspended context fails, or the creation or
\* the start of the source throws.
AudioOutcomes == {"played", "noContext", "resumeFails", "sourceThrows"}

\* playDing as a plain function without try/catch: a failure of the audio
\* reaches the caller.
PlayDingThrowsThrough(audio) ==
  IF audio \in {"resumeFails", "sourceThrows"} THEN "threw" ELSE "returned"

\* How the statement "playDing();" completes for fetchAlertsOnce: playDing is
\* async, its body is one try block with an empty catch, and the call is not
\* awaited.
PlayDingCompletes(audio) == "returned"

\* fetchAlertsOnce up to its first await.
Seen_FetchStart(u, initial, switched) ==
  /\ Len(inflight) < MaxInFlight
  /\ alertsError' = Null
  /\ loadingAlerts' = IF isFirstLoadRef' THEN TRUE ELSE loadingAlerts
  /\ inflight' = Append(TornDown(inflight), NewFetch(u, initial, switched))

\* The effect on [user, supabase]: the cleanup of the previous run, the reset
\* of the refs, and for a user the first fetch and the timer.
Seen_Effect(u) ==
  /\ mounted
  /\ ~(u = NoUser /\ user = NoUser)
  /\ user' = u
  /\ seenAlertIdsRef' = {}
  /\ isFirstLoadRef' = TRUE
  /\ IF u = NoUser
     THEN /\ intervalId' = FALSE
          /\ inflight' = TornDown(inflight)
          /\ UNCHANGED <<alertsError, loadingAlerts>>
     ELSE /\ Seen_FetchStart(u, TRUE, Switched(user, u))
          /\ intervalId' = TRUE
  /\ succeeded' = FALSE
  /\ last' = [NoLast EXCEPT !.op = "effect"]
  /\ UNCHANGED <<mounted, alerts, knownAlertIdsRef, soundEnabled, pollerSound>>
  /\ UNCHANGED pageVars

\* The cleanup at unmount.
Seen_Unmount ==
  /\ mounted
  /\ mounted' = FALSE
  /\ intervalId' = FALSE
  /\ inflight' = TornDown(inflight)
  /\ last' = [NoLast EXCEPT !.op = "unmount"]
  /\ UNCHANGED <<user, alerts, loadingAlerts, alertsError, isFirstLoadRef,
                 seenAlertIdsRef, knownAlertIdsRef, soundEnabled, pollerSound,
                 succeeded>>
  /\ UNCHANGED pageVars

\* setInterval(() => fetchAlertsOnce(), pollInterval)
Seen_Tick ==
  /\ intervalId
  /\ Len(inflight) < MaxInFlight
  /\ alertsError' = Null
  /\ loadingAlerts' = IF isFirstLoadRef THEN TRUE ELSE loadingAlerts
  /\ inflight' = Append(inflight, NewFetch(user, FALSE, FALSE))
  /\ last' = [NoLast EXCEPT !.op = "tick"]
  /\ UNCHANGED <<user, mounted, intervalId, alerts, isFirstLoadRef,
                 seenAlertIdsRef, knownAlertIdsRef, soundEnabled, pollerSound,
                 succeeded>>
  /\ UNCHANGED pageVars

\* finally { if (isMounted && isFirstLoadRef.current) { setLoadingAlerts(false); isFirstLoadRef.current = false } }
Seen_Finally(f) ==
  IF IsMounted(f) /\ isFirstLoadRef
  THEN loadingAlerts' = FALSE /\ isFirstLoadRef' = FALSE
  ELSE UNCHANGED <<loadingAlerts, isFirstLoadRef>>

\* The try block from "if (!isMounted) return" to setAlerts, then finally.
\* An exception of the playDing() statement would leave the try block after
\* the ids were marked as seen, for the catch.
Seen_Commit(i, list, audio) ==
  LET f == inflight[i]
      newOnes == NewOnes(list, seenAlertIdsRef)
      dings == IF ~isFirstLoadRef THEN DingCalls(newOnes) ELSE 0
      threw == dings > 0 /\ PlayDingCompletes(audio) = "threw"
  IN /\ IF ~IsMounted(f)
        THEN /\ UNCHANGED <<alerts, seenAlertIdsRef, succeeded, alertsError>>
             /\ inflight' = RemoveAt(inflight, i)
             /\ last' = [NoLast EXCEPT !.op = "commit", !.live = f.live,
                                       !.initial = f.initial,
                                       !.switched = f.switched,
                                       !.overtaken = f.overtaken]
        ELSE /\ seenAlertIdsRef' =
                  IF ~isFirstLoadRef
                  THEN MarkSeen(seenAlertIdsRef, newOnes)
                  ELSE IdsOf(list)
             /\ alerts' = IF threw THEN alerts ELSE list
             /\ alertsError' = IF threw THEN LoadErrorText(Null) ELSE alertsError
             /\ succeeded' = (succeeded \/ ~threw)
             /\ inflight' = IF threw THEN RemoveAt(inflight, i)
                            ELSE RemoveAt(Overtake(inflight, i), i)
             /\ last' = [NoLast EXCEPT !.op = IF threw THEN "fail" ELSE "commit",
                                       !.live = f.live,
                                       !.firstSuccess = ~succeeded,
                                       !.initial = f.initial,
                                       !.switched = f.switched,
                                       !.news = Cardinality(IdsOf(list) \ seenAlertIdsRef),
                                       !.dings = dings,
                                       !.audio = IF dings > 0 THEN audio ELSE Null,
                                       !.overtaken = f.overtaken]
     /\ Seen_Finally(f)

\* catch (err) { if (isMounted) setAlertsError(err?.message ?? "Failed to load alerts") }, then finally.
Seen_Fail(i, msg) ==
  LET f == inflight[i]
  IN /\ alertsError' = IF IsMounted(f) THEN LoadErrorText(msg) ELSE alertsError
     /\ Seen_Finally(f)
     /\ inflight' = RemoveAt(inflight, i)
     /\ last' = [NoLast EXCEPT !.op = "fail", !.live = f.live,
                               !.initial = f.initial,
                               !.switched = f.switched,
                               !.stage = f.stage]
     /\ UNCHANGED <<alerts, seenAlertIdsRef, succeeded>>

Seen_Frame == /\ UNCHANGED <<user, mounted, intervalId, knownAlertIdsRef,
                             soundEnabled, pollerSound>>
              /\ UNCHANGED pageVars

\* The alerts query answers with an error.
Seen_AlertsErr(i, msg) ==
  /\ inflight[i].stage = "alerts"
  /\ Seen_Fail(i, msg)
  /\ Seen_Frame

\* The alerts query answers with the rows `ids` of the user: without rows the
\* call goes on to the commit, otherwise it awaits the events lookup.
Seen_AlertsOk(i, ids) ==
  /\ inflight[i].stage = "alerts"
  /\ ids \subseteq AlertsOf(inflight[i].userId)
  /\ IF ids = {}
     THEN Seen_Commit(i, <<>>, "played")
     ELSE /\ inflight' = [inflight EXCEPT ![i].stage = "events",
                                          ![i].rows = OrderDesc(ids)]
          /\ last' = [NoLast EXCEPT !.op = "rows", !.live = inflight[i].live]
          /\ UNCHANGED <<alerts, loadingAlerts, alertsError, isFirstLoadRef,
                         seenAlertIdsRef, succeeded>>
  /\ Seen_Frame

\* The events lookup answers with an error.
Seen_EventsErr(i, msg) ==
  /\ inflight[i].stage = "events"
  /\ Seen_Fail(i, msg)
  /\ Seen_Frame

\* The events lookup answers with the rows eventsData; a playDing call of
\* the step meets the audio outcome `audio`.
Seen_EventsOk(i, eventsData, audio) ==
  /\ inflight[i].stage = "events"
  /\ eventsData \in EventRowsFor(EventIdsOf(inflight[i].rows))
  /\ Seen_Commit(i, WithEvents(inflight[i].rows, eventsData), audio)
  /\ Seen_Frame

SeenNext ==
  \/ \E u \in Users \cup {NoUser} : Seen_Effect(u)
  \/ Seen_Unmount
  \/ Seen_Tick
  \/ \E i \in 1..Len(inflight), msg \in ErrorMessages : Seen_AlertsErr(i, msg)
  \/ \E i \in 1..Len(inflight), ids \in SUBSET AlertIds : Seen_AlertsOk(i, ids)
  \/ \E i \in 1..Len(inflight), msg \in ErrorMessages : Seen_EventsErr(i, msg)
  \/ \E i \in 1..Len(inflight) :
        \E eventsData \in EventRowsFor(EventIdsOf(inflight[i].rows)) :
          Seen_EventsOk(i, eventsData, "played")

SpecSeen == Init /\ [][SeenNext]_vars

\* A step in which a fetch of a torn-down poller took a response.
StaleResponse == last'.op \in {"commit", "fail", "rows"} /\ ~last'.live

\* A step in which a fetch of the running poller was applied, or failed.
AppliedStep == last'.op = "commit" /\ last'.live
FailedStep == last'.op = "fail"

\* C1: in the seen-id poller, every applied poll that is not the first load
\* calls playDing exactly once when some returned id is not in the previous
\* seen-id set, and not at all otherwise, however many ids are new.
C1_DingIffNewOnce ==
  [][(AppliedStep /\ ~isFirstLoadRef) =>
       last'.dings = (IF IdsOf(alerts') \ seenAlertIdsRef # {} THEN 1 ELSE 0)]_vars

\* C1 witness: an applied later poll that brought two new ids and one ding.
C1_Witness ==
  /\ last.op = "commit" /\ last.live
  /\ last.news >= 2
  /\ last.dings = 1

C3_FirstSuccessSilent ==
  (last.op = "commit" /\ last.live /\ last.firstSuccess)
    => (seenAlertIdsRef = IdsOf(alerts) /\ last.dings = 0)

\* C4 as stated: the fetch issued by the effect itself (the first poll of an
\* identity) never calls playDing.
C4_FirstPollSilent ==
  (last.op = "commit" /\ last.live /\ last.initial) => last.dings = 0

\* C5 as stated: the effect run for a change from one user to another leaves
\* the seen-id set empty and the first-load flag set when it issues the first
\* fetch for the new user, and that fetch, once applied, is handled as a first
\* load: it seeds the seen-id set and calls playDing not once.
C5_ResetThenFirstLoad ==
  [][/\ (last'.op = "effect" /\ Switched(user, user')) =>
          /\ seenAlertIdsRef' = {}
          /\ isFirstLoadRef'
          /\ Len(inflight') > 0
          /\ inflight'[Len(inflight')].initial
          /\ inflight'[Len(inflight')].userId = user'
     /\ (AppliedStep /\ last'.initial /\ last'.switched) =>
          (seenAlertIdsRef' = IdsOf(alerts') /\ last'.dings = 0)]_vars

\* C34 as stated: in the seen-id poller, an effect run for a re-delivery of
\* the identity that is already polled leaves the running poller (its timer
\* and its suspended fetches), the seen-id set and the first-load flag as they
\* were.
C34_RedeliveryKeepsPoller ==
  [][(last'.op = "effect" /\ user \in Users /\ user' = user) =>
       /\ seenAlertIdsRef' = seenAlertIdsRef
       /\ isFirstLoadRef' = isFirstLoadRef
       /\ inflight' = inflight]_vars

----------------------------------------------------------------------------
\* The poller of src/app/page.tsx

Page_Others == /\ UNCHANGED <<seenAlertIdsRef, knownAlertIdsRef,
                              soundEnabled, pollerSound>>
               /\ UNCHANGED dismissVars
               /\ UNCHANGED <<mediaVars, res, otherVars>>

\* The effect without its own fetchAlertsOnce() call: the timer only.
Page_EffectTimerOnly(u) ==
  /\ mounted
  /\ ~(u = NoUser /\ user = NoUser)
  /\ user' = u
  /\ intervalId' = (u # NoUser)
  /\ inflight' = TornDown(inflight)
  /\ succeeded' = FALSE
  /\ last' = [NoLast EXCEPT !.op = "effect"]
  /\ UNCHANGED <<mounted, alerts, isFirstLoadRef, everCompleted, alertsError,
                 loadingAlerts>>
  /\ Page_Others

\* The effect on [user, supabase]: the cleanup of the previous run, and for a
\* user the first fetch (up to its first await) and the timer.  No ref is reset.
Page_EffectBody(u) ==
  /\ mounted
  /\ ~(u = NoUser /\ user = NoUser)
  /\ user' = u
  /\ IF u = NoUser
     THEN /\ intervalId' = FALSE
          /\ inflight' = TornDown(inflight)
          /\ UNCHANGED <<alertsError, loadingAlerts>>
     ELSE /\ Len(inflight) < MaxInFlight
          /\ alertsError' = Null
          /\ loadingAlerts' = IF isFirstLoadRef THEN TRUE ELSE loadingAlerts
          /\ inflight' = Append(TornDown(inflight), NewFetch(u, TRUE, Switched(user, u)))
          /\ intervalId' = TRUE
  /\ succeeded' = FALSE
  /\ last' = [NoLast EXCEPT !.op = "effect"]
  /\ UNCHANGED <<mounted, alerts, isFirstLoadRef, everCompleted>>

Page_Effect(u) == Page_EffectBody(u) /\ Page_Others

\* The cleanup at unmount.
Page_UnmountBody ==
  /\ mounted
  /\ mounted' = FALSE
  /\ intervalId' = FALSE
  /\ inflight' = TornDown(inflight)
  /\ last' = [NoLast EXCEPT !.op = "unmount"]
  /\ UNCHANGED <<user, alerts, loadingAlerts, alertsError, isFirstLoadRef,
                 succeeded, everCompleted>>

Page_Unmount == Page_UnmountBody /\ Page_Others

\* setTimeout in the place of setInterval: the timer ends with its first tick.
Page_TickOnce ==
  /\ intervalId
  /\ Len(inflight) < MaxInFlight
  /\ alertsError' = Null
  /\ loadingAlerts' = IF isFirstLoadRef THEN TRUE ELSE loadingAlerts
  /\ inflight' = Append(inflight, NewFetch(user, FALSE, FALSE))
  /\ intervalId' = FALSE
  /\ last' = [NoLast EXCEPT !.op = "tick"]
  /\ UNCHANGED <<user, mounted, alerts, isFirstLoadRef, succeeded,
                 everCompleted>>
  /\ Page_Others

\* A tick whose fetchAlertsOnce leaves the error string alone.
Page_TickKeepsError ==
  /\ intervalId
  /\ Len(inflight) < MaxInFlight
  /\ loadingAlerts' = IF isFirstLoadRef THEN TRUE ELSE loadingAlerts
  /\ inflight' = Append(inflight, NewFetch(user, FALSE, FALSE))
  /\ last' = [NoLast EXCEPT !.op = "tick"]
  /\ UNCHANGED <<user, mounted, intervalId, alerts, isFirstLoadRef, succeeded,
                 everCompleted, alertsError>>
  /\ Page_Others

\* setInterval(() => fetchAlertsOnce(), pollInterval): fetchAlertsOnce up to
\* its first await; the timer stays.
Page_Tick ==
  /\ intervalId
  /\ Len(inflight) < MaxInFlight
  /\ alertsError' = Null
  /\ loadingAlerts' = IF isFirstLoadRef THEN TRUE ELSE loadingAlerts
  /\ inflight' = Append(inflight, NewFetch(user, FALSE, FALSE))
  /\ last' = [NoLast EXCEPT !.op = "tick"]
  /\ UNCHANGED <<user, mounted, intervalId, alerts, isFirstLoadRef, succeeded,
                 everCompleted>>
  /\ Page_Others

\* The finally block without "isFirstLoadRef.current = false".
Page_FinallyKeepsFlag(f) ==
  IF IsMounted(f) /\ isFirstLoadRef
  THEN loadingAlerts' = FALSE /\ UNCHANGED isFirstLoadRef
  ELSE UNCHANGED <<loadingAlerts, isFirstLoadRef>>

\* finally { if (isMounted && isFirstLoadRef.current) { setLoadingAlerts(false); isFirstLoadRef.current = false } }
Page_Finally(f) ==
  IF IsMounted(f) /\ isFirstLoadRef
  THEN loadingAlerts' = FALSE /\ isFirstLoadRef' = FALSE
  ELSE UNCHANGED <<loadingAlerts, isFirstLoadRef>>

\* if (!isMounted) return; setAlerts(withEvents); then finally.
Page_Commit(i, list) ==
  LET f == inflight[i]
  IN /\ IF ~IsMounted(f)
        THEN /\ UNCHANGED <<alerts, succeeded>>
             /\ inflight' = RemoveAt(inflight, i)
        ELSE /\ alerts' = list
             /\ succeeded' = TRUE
             /\ inflight' = RemoveAt(Overtake(inflight, i), i)
     /\ last' = [NoLast EXCEPT !.op = "commit", !.live = f.live,
                               !.initial = f.initial,
                               !.switched = f.switched,
                               !.firstSuccess = f.live /\ ~succeeded,
                               !.overtaken = f.overtaken]
     /\ Page_Finally(f)
     /\ everCompleted' = (everCompleted \/ f.live)
     /\ UNCHANGED alertsError

\* catch (err) { if (isMounted) setAlertsError(err?.message ?? "Failed to load alerts") }, then finally.
Page_Fail(i, msg) ==
  LET f == inflight[i]
  IN /\ alertsError' = IF IsMounted(f) THEN LoadErrorText(msg) ELSE alertsError
     /\ Page_Finally(f)
     /\ inflight' = RemoveAt(inflight, i)
     /\ last' = [NoLast EXCEPT !.op = "fail", !.live = f.live,
                               !.initial = f.initial,
                               !.switched = f.switched,
                               !.stage = f.stage]
     /\ everCompleted' = (everCompleted \/ f.live)
     /\ UNCHANGED <<alerts, succeeded>>

Page_Frame == UNCHANGED <<user, mounted, intervalId>> /\ Page_Others

\* The alerts query answers with an error.
Page_AlertsErr(i, msg) ==
  /\ inflight[i].stage = "alerts"
  /\ Page_Fail(i, msg)
  /\ Page_Frame

\* The alerts query answers with the rows `ids` of the user: without rows the
\* call goes on to the commit, otherwise it awaits the events lookup.
Page_AlertsOk(i, ids) ==
  /\ inflight[i].stage = "alerts"
  /\ ids \subseteq AlertsOf(inflight[i].userId)
  /\ IF ids = {}
     THEN Page_Commit(i, <<>>)
     ELSE /\ inflight' = [inflight EXCEPT ![i].stage = "events",
                                          ![i].rows = OrderDesc(ids),
                                          ![i].lookups =
                                            Append(@, EventIdsOf(OrderDesc(ids)))]
          /\ last' = [NoLast EXCEPT !.op = "rows", !.live = inflight[i].live]
          /\ UNCHANGED <<alerts, loadingAlerts, alertsError, isFirstLoadRef,
                         succeeded, everCompleted>>
  /\ Page_Frame

\* The events lookup answers with an error.
Page_EventsErr(i, msg) ==
  /\ inflight[i].stage = "events"
  /\ Page_Fail(i, msg)
  /\ Page_Frame

\* The events lookup answers with the rows eventsData.
Page_EventsOk(i, eventsData) ==
  /\ inflight[i].stage = "events"
  /\ eventsData \in EventRowsFor(EventIdsOf(inflight[i].rows))
  /\ Page_Commit(i, WithEvents(inflight[i].rows, eventsData))
  /\ Page_Frame

PageNext ==
  \/ \E u \in Users \cup {NoUser} : Page_Effect(u)
  \/ Page_Unmount
  \/ Page_Tick
  \/ \E i \in 1..Len(inflight), msg \in ErrorMessages : Page_AlertsErr(i, msg)
  \/ \E i \in 1..Len(inflight), ids \in SUBSET AlertIds : Page_AlertsOk(i, ids)
  \/ \E i \in 1..Len(inflight), msg \in ErrorMessages : Page_EventsErr(i, msg)
  \/ \E i \in 1..Len(inflight) :
        \E eventsData \in EventRowsFor(EventIdsOf(inflight[i].rows)) :
          Page_EventsOk(i, eventsData)

SpecPage == Init /\ [][PageNext]_vars

\* C6: the response of a fetch whose poller was torn down changes none of the
\* alerts list, the error string, the loading flag and the first-load flag.
C6_StaleResponseMutatesNothing ==
  [][StaleResponse =>
       UNCHANGED <<alerts, alertsError, loadingAlerts, isFirstLoadRef>>]_vars

\* C6 witness: a fetch of a former poller completed while the next poller was
\* running with the loading flag and the first-load flag set.
C6_Witness ==
  /\ last.op = "commit" /\ ~last.live
  /\ mounted /\ user # NoUser
  /\ loadingAlerts /\ isFirstLoadRef

\* C8 as stated: the result of a fetch is never applied to the alerts list
\* after the result of a fetch that was started later has been applied.
C8_NoOutOfOrderApply ==
  ~(last.op = "commit" /\ last.live /\ last.overtaken)

\* C9: a failed fetch of a running poller, at the alerts query or at the
\* events lookup, sets the error string to the error's message or to "Failed
\* to load alerts" and leaves the alerts list as it was.
C9_FailureKeepsList ==
  [][(last'.op = "fail" /\ last'.live) =>
       /\ alertsError' \in {"backend error", "Failed to load alerts"}
       /\ alerts' = alerts]_vars

\* C9 witness: the events lookup failed while a non-empty list was on display.
C9_Witness ==
  /\ last.op = "fail" /\ last.live /\ last.stage = "events"
  /\ alerts # <<>>
  /\ alertsError = "Failed to load alerts"

\* C10: while a user is present and the view is mounted the timer of the
\* poller is live, after a failed fetch as after any other step, and its next
\* tick starts a fetch (whenever the model has room for one more).
C10_PollingNeverStops ==
  (mounted /\ user # NoUser) =>
     /\ intervalId
     /\ (Len(inflight) < MaxInFlight => ENABLED Page_Tick)

\* C10 witness: a fetch of the running poller has just failed.
C10_Witness ==
  /\ last.op = "fail" /\ last.live
  /\ mounted /\ user # NoUser
  /\ alertsError # Null

\* A step that tore a poller down: the effect cleanup, at a change of the
\* identity or at unmount.
TeardownStep == last'.op \in {"effect", "unmount"}

\* The fetchAlertsOnce call a step started, if it started one.
StartedFetch == inflight'[Len(inflight')]

\* C11 as stated: the teardown of a poller cancels its timer and clears the
\* isMounted of every call it started; afterwards the torn-down poller starts
\* no fetchAlertsOnce call and none of its suspended calls sends a request.
C11_TornDownPollerSilent ==
  [][/\ TeardownStep =>
          /\ \A j \in 1..Len(inflight) : ~inflight'[j].live
          /\ intervalId' => (last'.op = "effect" /\ user' # NoUser)
     /\ Len(inflight') > Len(inflight) =>
          /\ last'.op \in {"effect", "tick"}
          /\ last'.op = "tick" => intervalId
          /\ StartedFetch.live /\ StartedFetch.userId = user'
     /\ ~(last'.op = "rows" /\ ~last'.live)]_vars

\* C11: the teardown of a poller cancels its timer and clears the isMounted of
\* every call it started; afterwards the torn-down poller starts no
\* fetchAlertsOnce call: a call is started only by the effect run or by a tick
\* of the live timer, for the running poller.  (A call of the torn-down poller
\* that was suspended at the alerts query still sends its events lookup.)
C11_NoPollAfterTeardown ==
  [][/\ TeardownStep =>
          /\ \A j \in 1..Len(inflight) : ~inflight'[j].live
          /\ intervalId' => (last'.op = "effect" /\ user' # NoUser)
     /\ Len(inflight') > Len(inflight) =>
          /\ last'.op \in {"effect", "tick"}
          /\ last'.op = "tick" => intervalId
          /\ StartedFetch.live /\ StartedFetch.userId = user'
     /\ \A j \in 1..Len(inflight') :
          (j <= Len(inflight) /\ Len(inflight') >= Len(inflight) /\ inflight'[j].live)
             => inflight[j].live]_vars

\* C11 witness: the identity disappeared while two calls of the poller were
\* suspended; the timer is cancelled.
C11_Witness ==
  /\ last.op = "effect" /\ user = NoUser /\ mounted
  /\ Len(inflight) = 2 /\ ~intervalId

\* C12: the effect run for a user starts exactly one fetchAlertsOnce call at
\* once and creates the timer; every tick starts exactly one call; no other
\* step starts a call; without a user there is no timer and no call of a
\* running poller.
C12_FetchAtOnceThenPerTick ==
  [][/\ (last'.op = "effect" /\ user' # NoUser) =>
          /\ Len(inflight') = Len(inflight) + 1
          /\ StartedFetch.live /\ StartedFetch.initial
          /\ StartedFetch.userId = user' /\ StartedFetch.stage = "alerts"
          /\ intervalId'
     /\ last'.op = "tick" =>
          /\ intervalId /\ intervalId'
          /\ Len(inflight') = Len(inflight) + 1
          /\ StartedFetch.live /\ ~StartedFetch.initial
          /\ StartedFetch.userId = user' /\ StartedFetch.stage = "alerts"
     /\ (last'.op \notin {"effect", "tick"} \/ user' = NoUser) =>
          Len(inflight') <= Len(inflight)
     /\ user' = NoUser =>
          /\ ~intervalId'
          /\ \A j \in 1..Len(inflight') : ~inflight'[j].live]_vars

\* C12 witness: the immediate fetch of the effect and the fetch of a tick are
\* both suspended.
C12_Witness ==
  /\ last.op = "tick" /\ Len(inflight) = 2
  /\ inflight[1].live /\ inflight[1].initial
  /\ inflight[2].live /\ ~inflight[2].initial

\* C13: the loading flag goes from false to true only at the start of a fetch
\* and only while no fetch has completed for a running poller; once one has
\* completed (applied or failed) the flag is false and stays false.
C13_LoadingOnlyFirstFetch ==
  [][/\ (loadingAlerts' /\ ~loadingAlerts) =>
          (last'.op \in {"effect", "tick"} /\ ~everCompleted)
     /\ (last'.op \in {"commit", "fail"} /\ last'.live) => ~loadingAlerts'
     /\ everCompleted' => ~loadingAlerts']_vars

\* C13 witness: a background poll started after the first fetch had failed,
\* with the loading flag false.
C13_Witness ==
  /\ last.op = "tick" /\ everCompleted /\ ~succeeded
  /\ ~loadingAlerts /\ Len(inflight) = 1

\* C33 as stated: while an identity is present in the mounted view and the
\* loading flag is false (the alerts list is on display), every alert of the
\* list has the user_id of that identity, also between a change of identity
\* and the first fetch applied for the new one.
C33_ListBelongsToUser ==
  (mounted /\ user \in Users /\ ~loadingAlerts) =>
    \A k \in 1..Len(alerts) : alerts[k].user_id = user

----------------------------------------------------------------------------
\* The sound-toggle poller of src/unnamed/part_002 (second component)

Snd_Others == UNCHANGED seenAlertIdsRef /\ UNCHANGED pageVars

\* The effect on [user, supabase]: the cleanup of the previous run, and for a
\* user the first fetch with shouldSignalNew false and the timer.  The
\* fetchAlertsOnce of this run calls the playDing of the render it was
\* created in, which holds that render's soundEnabled.
Snd_Effect(u) ==
  /\ mounted
  /\ ~(u = NoUser /\ user = NoUser)
  /\ user' = u
  /\ pollerSound' = (u # NoUser /\ soundEnabled)
  /\ IF u = NoUser
     THEN /\ intervalId' = FALSE
          /\ inflight' = TornDown(inflight)
          /\ UNCHANGED <<alertsError, loadingAlerts>>
     ELSE /\ Len(inflight) < MaxInFlight
          /\ alertsError' = Null
          /\ loadingAlerts' = IF isFirstLoadRef THEN TRUE ELSE loadingAlerts
          /\ inflight' = Append(TornDown(inflight), NewFetch(u, TRUE, Switched(user, u)))
          /\ intervalId' = TRUE
  /\ succeeded' = FALSE
  /\ last' = [NoLast EXCEPT !.op = "effect"]
  /\ UNCHANGED <<mounted, alerts, isFirstLoadRef, knownAlertIdsRef, soundEnabled>>
  /\ Snd_Others

\* The cleanup at unmount.
Snd_Unmount ==
  /\ mounted
  /\ mounted' = FALSE
  /\ intervalId' = FALSE
  /\ inflight' = TornDown(inflight)
  /\ last' = [NoLast EXCEPT !.op = "unmount"]
  /\ pollerSound' = FALSE
  /\ UNCHANGED <<user, alerts, loadingAlerts, alertsError, isFirstLoadRef,
                 knownAlertIdsRef, soundEnabled, succeeded>>
  /\ Snd_Others

\* setInterval(() => fetchAlertsOnce({ shouldSignalNew: true }), 5000)
Snd_Tick ==
  /\ intervalId
  /\ Len(inflight) < MaxInFlight
  /\ alertsError' = Null
  /\ loadingAlerts' = IF isFirstLoadRef THEN TRUE ELSE loadingAlerts
  /\ inflight' = Append(inflight, NewFetch(user, FALSE, FALSE))
  /\ last' = [NoLast EXCEPT !.op = "tick"]
  /\ UNCHANGED <<user, mounted, intervalId, alerts, isFirstLoadRef,
                 knownAlertIdsRef, soundEnabled, pollerSound, succeeded>>
  /\ Snd_Others

\* The "Enable sound" button, shown to a user while the sound is off.
enableSound ==
  /\ mounted /\ user # NoUser
  /\ ~soundEnabled
  /\ soundEnabled' = TRUE
  /\ last' = [NoLast EXCEPT !.op = "enableSound"]
  /\ UNCHANGED <<user, mounted, intervalId, inflight, alerts, loadingAlerts,
                 alertsError, isFirstLoadRef, knownAlertIdsRef, pollerSound,
                 succeeded>>
  /\ Snd_Others

\* The "Sound: On" button.
disableSound ==
  /\ mounted /\ user # NoUser
  /\ soundEnabled
  /\ soundEnabled' = FALSE
  /\ last' = [NoLast EXCEPT !.op = "disableSound"]
  /\ UNCHANGED <<user, mounted, intervalId, inflight, alerts, loadingAlerts,
                 alertsError, isFirstLoadRef, knownAlertIdsRef, pollerSound,
                 succeeded>>
  /\ Snd_Others

\* finally { if (isMounted && isFirstLoadRef.current) { setLoadingAlerts(false); isFirstLoadRef.current = false } }
Snd_Finally(f) ==
  IF IsMounted(f) /\ isFirstLoadRef
  THEN loadingAlerts' = FALSE /\ isFirstLoadRef' = FALSE
  ELSE UNCHANGED <<loadingAlerts, isFirstLoadRef>>

\* hasNew: some id of currentIds is not in knownAlertIdsRef.
HasNew(list, known) == \E id \in IdsOf(list) : id \notin known

\* knownAlertIdsRef.current = currentIds; setAlerts(withEvents); then finally.
\* Once the component is unmounted its state and refs are out of reach (React
\* drops the setAlerts): they are left as they were.
Snd_Apply(i, list, dings) ==
  LET f == inflight[i]
  IN /\ knownAlertIdsRef' = IF mounted THEN IdsOf(list) ELSE knownAlertIdsRef
     /\ alerts' = IF mounted THEN list ELSE alerts
     /\ succeeded' = (succeeded \/ f.live)
     /\ inflight' = IF f.live THEN RemoveAt(Overtake(inflight, i), i)
                    ELSE RemoveAt(inflight, i)
     /\ last' = [NoLast EXCEPT !.op = "commit", !.live = f.live,
                               !.initial = f.initial,
                               !.switched = f.switched,
                               !.firstSuccess = f.live /\ ~succeeded,
                               !.news = Cardinality(IdsOf(list) \ knownAlertIdsRef),
                               !.dings = dings,
                               !.stage = f.stage,
                               !.overtaken = f.overtaken]
     /\ Snd_Finally(f)
     /\ UNCHANGED alertsError

\* The try block from "if (!isMounted) return" on.  playDing is awaited: with
\* the sound on in its closure it suspends when the audio context has to be
\* resumed or the audio element has to start (`suspends`), and the call goes
\* on only when that settles.
Snd_Commit(i, list, suspends) ==
  LET f == inflight[i]
      signal == ~isFirstLoadRef /\ ~f.initial /\ HasNew(list, knownAlertIdsRef)
  IN IF ~IsMounted(f)
     THEN /\ inflight' = RemoveAt(inflight, i)
          /\ last' = [NoLast EXCEPT !.op = "commit", !.live = f.live,
                                    !.initial = f.initial,
                                    !.switched = f.switched,
                                    !.overtaken = f.overtaken]
          /\ Snd_Finally(f)
          /\ UNCHANGED <<alerts, knownAlertIdsRef, succeeded, alertsError>>
     ELSE IF signal /\ pollerSound /\ suspends
     THEN /\ inflight' = [inflight EXCEPT ![i].stage = "ding", ![i].list = list]
          /\ last' = [NoLast EXCEPT !.op = "playDing", !.live = f.live]
          /\ UNCHANGED <<alerts, knownAlertIdsRef, succeeded, alertsError,
                         loadingAlerts, isFirstLoadRef>>
     ELSE Snd_Apply(i, list, IF signal THEN 1 ELSE 0)

\* catch (err) { if (isMounted) setAlertsError(err?.message ?? "Failed to load alerts") }, then finally.
Snd_Fail(i, msg) ==
  LET f == inflight[i]
  IN /\ alertsError' = IF IsMounted(f) THEN LoadErrorText(msg) ELSE alertsError
     /\ Snd_Finally(f)
     /\ inflight' = RemoveAt(inflight, i)
     /\ last' = [NoLast EXCEPT !.op = "fail", !.live = f.live,
                               !.initial = f.initial,
                               !.switched = f.switched,
                               !.stage = f.stage]
     /\ UNCHANGED <<alerts, knownAlertIdsRef, succeeded>>

Snd_Frame == UNCHANGED <<user, mounted, intervalId, soundEnabled, pollerSound>>
             /\ Snd_Others

\* The alerts query answers with an error.
Snd_AlertsErr(i, msg) ==
  /\ inflight[i].stage = "alerts"
  /\ Snd_Fail(i, msg)
  /\ Snd_Frame

\* The alerts query answers with the rows `ids` of the user.
Snd_AlertsOk(i, ids, suspends) ==
  /\ inflight[i].stage = "alerts"
  /\ ids \subseteq AlertsOf(inflight[i].userId)
  /\ IF ids = {}
     THEN Snd_Commit(i, <<>>, suspends)
     ELSE /\ inflight' = [inflight EXCEPT ![i].stage = "events",
                                          ![i].rows = OrderDesc(ids)]
          /\ last' = [NoLast EXCEPT !.op = "rows", !.live = inflight[i].live]
          /\ UNCHANGED <<alerts, loadingAlerts, alertsError, isFirstLoadRef,
                         knownAlertIdsRef, succeeded>>
  /\ Snd_Frame

\* The events lookup answers with an error.
Snd_EventsErr(i, msg) ==
  /\ inflight[i].stage = "events"
  /\ Snd_Fail(i, msg)
  /\ Snd_Frame

\* The events lookup answers with the rows eventsData.
Snd_EventsOk(i, eventsData, suspends) ==
  /\ inflight[i].stage = "events"
  /\ eventsData \in EventRowsFor(EventIdsOf(inflight[i].rows))
  /\ Snd_Commit(i, WithEvents(inflight[i].rows, eventsData), suspends)
  /\ Snd_Frame

\* The awaited playDing settles (it never rejects: its errors are caught).
Snd_DingDone(i) ==
  /\ inflight[i].stage = "ding"
  /\ Snd_Apply(i, inflight[i].list, 1)
  /\ Snd_Frame

SoundNext ==
  \/ \E u \in Users \cup {NoUser} : Snd_Effect(u)
  \/ Snd_Unmount
  \/ Snd_Tick
  \/ enableSound
  \/ disableSound
  \/ \E i \in 1..Len(inflight), msg \in ErrorMessages : Snd_AlertsErr(i, msg)
  \/ \E i \in 1..Len(inflight), ids \in SUBSET AlertIds, suspends \in BOOLEAN :
        Snd_AlertsOk(i, ids, suspends)
  \/ \E i \in 1..Len(inflight), msg \in ErrorMessages : Snd_EventsErr(i, msg)
  \/ \E i \in 1..Len(inflight), suspends \in BOOLEAN :
        \E eventsData \in EventRowsFor(EventIdsOf(inflight[i].rows)) :
          Snd_EventsOk(i, eventsData, suspends)
  \/ \E i \in 1..Len(inflight) : Snd_DingDone(i)

SpecSound == Init /\ [][SoundNext]_vars

\* C7 as stated: a fetch of the sound-toggle poller whose poller was torn down
\* while it was suspended, at whichever await, afterwards changes neither the
\* known-id set nor the alerts list.
C7_GuardAfterEveryAwait ==
  [][StaleResponse => UNCHANGED <<knownAlertIdsRef, alerts>>]_vars

\* A step in which a poll called playDing for an arrival it detected: the
\* call suspended in playDing, or went through it and was applied.
NotifyStep ==
  \/ last'.op = "playDing"
  \/ last'.op = "commit" /\ last'.dings = 1 /\ last'.stage # "ding"

\* The ids a notifying step found new.
NotifiedIds ==
  IF last'.op = "commit" THEN IdsOf(alerts') \ knownAlertIdsRef
  ELSE UNION {IdsOf(inflight'[j].list) \ knownAlertIdsRef :
                j \in {k \in 1..Len(inflight') :
                         /\ k <= Len(inflight)
                         /\ inflight'[k].stage = "ding"
                         /\ inflight[k].stage # "ding"}}

\* A step in which the playDing call of the running poller plays a tone: the
\* sound is on in the closure of the call (and the audio works).
ToneStep == NotifyStep /\ pollerSound

\* C26 as stated: a playback that fails or does not complete never blocks
\* the polling loop: a poll suspended in playDing can always go on, and then
\* updates the known-id set and the alerts list with what it fetched; and an
\* arrival that a poll suspended in playDing is notifying is not notified a
\* second time by an overlapping poll.
C26_PlaybackNeverBlocks ==
  [][/\ \A i \in 1..Len(inflight) :
          (inflight[i].stage = "ding" /\ Snd_DingDone(i) /\ mounted) =>
             /\ knownAlertIdsRef' = IdsOf(inflight[i].list)
             /\ IdsOf(alerts') = IdsOf(inflight[i].list)
     /\ NotifyStep =>
          \A j \in 1..Len(inflight) :
             (inflight[j].stage = "ding" /\ inflight[j].live) =>
                (IdsOf(inflight[j].list) \ knownAlertIdsRef)
                   \cap NotifiedIds = {}]_vars

\* C27 as stated: once the user has enabled the sound, every applied poll
\* after the first that finds at least one id the known-id set does not hold
\* plays exactly one tone, also when its poller was started before the sound
\* was enabled.
C27_ToneOncePerArrival ==
  [][(/\ soundEnabled
      /\ last'.live /\ ~last'.initial /\ ~isFirstLoadRef
      /\ \/ last'.op = "playDing"
         \/ last'.op = "commit" /\ last'.stage # "ding" /\ last'.news > 0)
       => ToneStep]_vars

\* C28 as stated: the sound is disabled initially, and arrival detection
\* plays no tone while the sound is disabled: none before enableSound, and
\* none after disableSound until enableSound is invoked again.
C28_NoToneWhileDisabled ==
  [][/\ ToneStep => soundEnabled
     /\ last'.op = "enableSound" => soundEnabled'
     /\ last'.op = "disableSound" => ~soundEnabled']_vars

----------------------------------------------------------------------------
\* dismissAlert of src/app/page.tsx, next to its poller

\* Number of dismissAlert calls that may be suspended at the same time.
MaxDismiss == 2

\* ({ [alertId]: value }), without the spread of prev.
SetKeyAlone(map, key, value) == [k \in {key} |-> value]

\* ({ ...prev, [alertId]: value })
SetKey(map, key, value) ==
  [k \in DOMAIN map \cup {key} |-> IF k = key THEN value ELSE map[k]]

\* A dismiss button on every listed alert.
DismissShownAlways(a) == TRUE

\* a.status === "active" ? <button onClick={() => dismissAlert(a.id)} ...> : <span>{a.status}</span>
DismissShown(a) == a.status = "active"

\* !!dismissingById[a.id]: the dismiss button of the alert is disabled.
DismissNeverDisabled(alertId) == FALSE
DismissDisabled(alertId) ==
  alertId \in DOMAIN dismissingById /\ dismissingById[alertId]

\* prev.filter(a => a.id !== alertId)
FilterKeepOnly(list, alertId) == SelectSeq(list, LAMBDA a : a.id = alertId)
FilterOut(list, alertId) == SelectSeq(list, LAMBDA a : a.id # alertId)

\* err?.message ?? "Failed to dismiss alert"
DismissErrorSwallowed(msg) == Null
DismissErrorText(msg) == IF msg = Null THEN "Failed to dismiss alert" ELSE msg

\* The ways the remote action fails: invoke returns { error }, or it throws.
DismissFailures == {"returned", "thrown"}

Dis_Frame == UNCHANGED <<user, mounted, intervalId, inflight, loadingAlerts,
                         isFirstLoadRef, succeeded, everCompleted,
                         seenAlertIdsRef, knownAlertIdsRef, soundEnabled,
                         pollerSound, mediaVars, res, otherVars>>

\* The "Dismiss" button of a listed alert (shown to a user, once the list is
\* loaded, for an alert of status "active", enabled while the alert is not
\* busy): dismissAlert up to its await.
dismissAlert(alertId) ==
  /\ mounted /\ user # NoUser /\ ~loadingAlerts
  /\ \E k \in 1..Len(alerts) :
        alerts[k].id = alertId /\ DismissShown(alerts[k])
  /\ ~DismissDisabled(alertId)
  /\ Len(dismissReqs) < MaxDismiss
  /\ alertsError' = Null
  /\ dismissingById' = SetKey(dismissingById, alertId, TRUE)
  /\ dismissReqs' = Append(dismissReqs, [alertId |-> alertId])
  /\ last' = [NoLast EXCEPT !.op = "dismiss", !.alert = alertId]
  /\ UNCHANGED alerts
  /\ Dis_Frame

\* The finally block without its setDismissingById.
Dismiss_FinallySkipped(alertId) == UNCHANGED dismissingById

\* finally { setDismissingById(prev => ({ ...prev, [alertId]: false })) }
\* (the state of an unmounted component is out of reach).
Dismiss_Finally(alertId) ==
  dismissingById' = IF mounted THEN SetKey(dismissingById, alertId, FALSE)
                    ELSE dismissingById

\* The remote action answers without error: setAlerts(prev => prev.filter(...)),
\* then finally.
Dismiss_Ok(i) ==
  LET alertId == dismissReqs[i].alertId
  IN /\ alerts' = IF mounted THEN FilterOut(alerts, alertId) ELSE alerts
     /\ Dismiss_Finally(alertId)
     /\ dismissReqs' = RemoveAt(dismissReqs, i)
     /\ last' = [NoLast EXCEPT !.op = "dismissed", !.alert = alertId,
                               !.removed = Len(alerts) - Len(alerts')]
     /\ UNCHANGED alertsError
     /\ Dis_Frame

\* The remote action fails: catch { setAlertsError(...) }, then finally.
Dismiss_Err(i, msg, how) ==
  LET alertId == dismissReqs[i].alertId
  IN /\ alertsError' = IF mounted THEN DismissErrorText(msg) ELSE alertsError
     /\ Dismiss_Finally(alertId)
     /\ dismissReqs' = RemoveAt(dismissReqs, i)
     /\ last' = [NoLast EXCEPT !.op = "dismissFailed", !.alert = alertId,
                               !.stage = how]
     /\ UNCHANGED alerts
     /\ Dis_Frame

\* The poller next to dismissAlert: the identity is u1 or none, a tick finds
\* no call of the running poller suspended, an error carries no message and
\* the events lookup finds every referenced event.
Dis_Tick == Page_Tick /\ \A j \in 1..Len(inflight) : ~inflight[j].live

AllEvents(i) == {EventRow(e[2]) : e \in EventIdsOf(inflight[i].rows)}

DismissNext ==
  \/ \E u \in {"u1", NoUser} : Page_Effect(u)
  \/ Page_Unmount
  \/ Dis_Tick
  \/ \E i \in 1..Len(inflight) : Page_AlertsErr(i, Null)
  \/ \E i \in 1..Len(inflight), ids \in SUBSET AlertIds : Page_AlertsOk(i, ids)
  \/ \E i \in 1..Len(inflight) : Page_EventsErr(i, Null)
  \/ \E i \in 1..Len(inflight) : Page_EventsOk(i, AllEvents(i))
  \/ \E alertId \in AlertIds : dismissAlert(alertId)
  \/ \E i \in 1..Len(dismissReqs) : Dismiss_Ok(i)
  \/ \E i \in 1..Len(dismissReqs), msg \in ErrorMessages,
         how \in DismissFailures : Dismiss_Err(i, msg, how)

SpecDismiss == Init /\ [][DismissNext]_vars

\* The steps in which a dismissAlert call of a mounted view completed.
DismissedStep == last'.op = "dismissed" /\ mounted
DismissFailedStep == last'.op = "dismissFailed" /\ mounted

C15_DismissFailureKeepsX ==
  [][DismissFailedStep =>
       /\ alerts' = alerts
       /\ alertsError' \in {"backend error", "Failed to dismiss alert"}]_vars

\* C15 witness: the remote action threw without a message while X was listed.
C15_Witness ==
  /\ last.op = "dismissFailed" /\ last.stage = "thrown" /\ mounted
  /\ last.alert \in IdsOf(alerts)
  /\ alertsError = "Failed to dismiss alert"

\* C16: the busy flag of X is true as long as a dismissAlert(X) call is
\* suspended; the completion of the call, on every exit path, sets it to false
\* and changes the flag of no other alert.
C16_BusyUntilCompleted ==
  [][/\ \A i \in 1..Len(dismissReqs') :
          /\ dismissReqs'[i].alertId \in DOMAIN dismissingById'
          /\ dismissingById'[dismissReqs'[i].alertId]
     /\ (DismissedStep \/ DismissFailedStep) =>
          /\ last'.alert \in DOMAIN dismissingById'
          /\ ~dismissingById'[last'.alert]
          /\ DOMAIN dismissingById' = DOMAIN dismissingById
          /\ \A Y \in DOMAIN dismissingById \ {last'.alert} :
                dismissingById'[Y] = dismissingById[Y]]_vars

\* C16 witness: the call for X completed after the user had signed out (the
\* poller was torn down), while the call for another alert was suspended.
C16_Witness ==
  /\ last.op \in {"dismissed", "dismissFailed"} /\ mounted /\ user = NoUser
  /\ Len(dismissReqs) = 1
  /\ dismissingById[dismissReqs[1].alertId]
  /\ ~dismissingById[last.alert]

\* C17: while a dismissAlert(X) call is suspended the dismiss button of X
\* cannot start another one, and no two suspended calls are for the same alert.
C17_OneDismissPerAlert ==
  /\ \A i \in 1..Len(dismissReqs) : ~ENABLED dismissAlert(dismissReqs[i].alertId)
  /\ \A i, j \in 1..Len(dismissReqs) :
        dismissReqs[i].alertId = dismissReqs[j].alertId => i = j

\* C17 witness: two alerts are listed to the user, each with a suspended call.
C17_Witness ==
  /\ mounted /\ user # NoUser /\ ~loadingAlerts
  /\ Len(dismissReqs) = 2
  /\ \A i \in 1..2 : dismissReqs[i].alertId \in IdsOf(alerts)

\* A step that starts a poll fetch or a dismissAlert call.
StartStep ==
  \/ last'.op \in {"tick", "dismiss"}
  \/ last'.op = "effect" /\ user' # NoUser

\* C36: every step that starts a poll fetch (the effect's own call or a tick)
\* or a dismissAlert call leaves the error string null, whatever it was; a
\* step that completes a fetch or a dismissal sets it only when that call
\* failed, so an error is on display at most until the next start.
C36_ErrorClearedAtStart ==
  [][/\ StartStep => alertsError' = Null
     /\ (alertsError' # Null /\ alertsError' # alertsError) =>
          last'.op \in {"fail", "dismissFailed"}]_vars

\* C36 witness: the fetches of the running poller have failed so far, the
\* list is empty (no dismissal could start), and the tick that came last
\* started a fetch, which is still suspended, with the error string null.
C36_Witness ==
  /\ last.op = "tick" /\ mounted /\ user # NoUser
  /\ everCompleted /\ ~succeeded /\ alerts = <<>>
  /\ alertsError = Null
  /\ \E j \in 1..Len(inflight) : inflight[j].live

----------------------------------------------------------------------------
\* Media of src/app/page.tsx: the helpers shared by the resolver and its callers

candidateImageExts == <<"jpg">>
candidateVideoExts == <<"mov">>
candidateExts == candidateVideoExts \o candidateImageExts

\* ext.toLowerCase(), on the spellings an extension is written in.
ToLowerCase(ext) ==
  CASE ext = "JPG" -> "jpg"
    [] ext = "MOV" -> "mov"
    [] OTHER -> ext

\* (candidateImageExts).includes(ext.toLowerCase()) ? "image" : "video"
inferKindAlwaysVideo(ext) == "video"
inferKindFromExt(ext) ==
  IF \E i \in 1..Len(candidateImageExts) : candidateImageExts[i] = ToLowerCase(ext)
  THEN "image" ELSE "video"

\* supabase.storage.from("falls").getPublicUrl(`${eventId}.${ext}`).data.publicUrl
PublicUrl(eventId, ext) == <<"falls", eventId[2], ext>>

\* { url: publicUrl, kind: inferKindFromExt(ext) }
MediaOf(eventId, ext) ==
  [url |-> PublicUrl(eventId, ext), kind |-> inferKindFromExt(ext)]

\* The null a resolveMediaForEventId call returns when it finds no media.
NoMedia == [url |-> <<>>, kind |-> Null]

\* What a resolveMediaForEventId(eventId) call may be fulfilled with.
MediaResults(eventId) ==
  {NoMedia} \cup {MediaOf(eventId, candidateExts[i]) : i \in 1..Len(candidateExts)}

----------------------------------------------------------------------------
\* The media map of src/app/page.tsx: the effect for the active alerts and the
\* expansion of past rows.  The two pollers are represented by the results
\* they apply (setAlerts, setPastAlerts); the identity is u1 or none.

\* Number of unsettled resolveMediaForEventId calls for one event id.
MaxProbes == 2

\* Array.from(new Set(alerts.map(a => String(a.trigger_event))))
UniqueEventIds(list) == {Str(list[i].trigger_event) : i \in 1..Len(list)}

\* eventMediaById[key] === undefined && !resolvingMediaIdsRef.current.has(key)
NeedsProbeIgnoringMap(key, media, resolving) == key \notin resolving
NeedsProbeIgnoringSet(key, media, resolving) == key \notin DOMAIN media
NeedsProbe(key, media, resolving) ==
  key \notin DOMAIN media /\ key \notin resolving

\* The event ids the media effect starts a probe for.
EffectStarts(list, media, resolving) ==
  IF Len(list) = 0 THEN {}
  ELSE {key \in UniqueEventIds(list) : NeedsProbe(key, media, resolving)}

\* resolvingMediaIdsRef.current.add(key); resolveMediaForEventId(key)...
StartProbes(counts, keys) ==
  [k \in EventKeys |-> IF k \in keys THEN counts[k] + 1 ELSE counts[k]]

\* The run of the media effect that follows a render of the mounted view, on
\* the state the render shows, after the handler left the resolving set and
\* the unsettled calls as (resolving, counts).
EffectStartsAfter(resolving) ==
  IF mounted' THEN EffectStarts(alerts', eventMediaById', resolving) ELSE {}

MediaEffectAfter(resolving, counts) ==
  LET starts == EffectStartsAfter(resolving)
  IN /\ \A k \in starts : counts[k] < MaxProbes
     /\ resolvingMediaIdsRef' = resolving \cup starts
     /\ probes' = StartProbes(counts, starts)

Med_Frame == UNCHANGED <<intervalId, inflight, loadingAlerts, alertsError,
                         isFirstLoadRef, seenAlertIdsRef, knownAlertIdsRef,
                         soundEnabled, pollerSound, succeeded, everCompleted,
                         dismissVars, pastAlertsError, res, otherVars>>

\* useAuth delivers an identity: the view renders again.
Med_User(u) ==
  /\ mounted
  /\ u # user
  /\ user' = u
  /\ UNCHANGED <<mounted, alerts, eventMediaById, pastAlerts, expandedPastById>>
  /\ MediaEffectAfter(resolvingMediaIdsRef, probes)
  /\ last' = [NoLast EXCEPT !.op = "user", !.started = EffectStartsAfter(resolvingMediaIdsRef)]
  /\ Med_Frame

\* The view unmounts.
Med_Unmount ==
  /\ mounted
  /\ mounted' = FALSE
  /\ last' = [NoLast EXCEPT !.op = "unmount"]
  /\ UNCHANGED <<user, alerts, eventMediaById, resolvingMediaIdsRef, probes,
                 pastAlerts, expandedPastById>>
  /\ Med_Frame

\* A fetch of the running active-alerts poller is applied:
\* setAlerts(withEvents), then the media effect.
Med_SetAlerts(ids) ==
  /\ mounted /\ user # NoUser
  /\ ids \subseteq AlertsOf(user)
  /\ alerts' = WithEvents(OrderDesc(ids),
                          {EventRow(TriggerEvent(id)) : id \in ids})
  /\ UNCHANGED <<user, mounted, eventMediaById, pastAlerts, expandedPastById>>
  /\ MediaEffectAfter(resolvingMediaIdsRef, probes)
  /\ last' = [NoLast EXCEPT !.op = "setAlerts", !.started = EffectStartsAfter(resolvingMediaIdsRef)]
  /\ Med_Frame

\* A fetch of the running past-alerts poller is applied:
\* setPastAlerts(withEvents), then the media effect.
Med_SetPastAlerts(ids) ==
  /\ mounted /\ user # NoUser
  /\ ids \subseteq AlertsOf(user)
  /\ pastAlerts' = WithEvents(OrderDesc(ids),
                              {EventRow(TriggerEvent(id)) : id \in ids})
  /\ UNCHANGED <<user, mounted, alerts, eventMediaById, expandedPastById>>
  /\ MediaEffectAfter(resolvingMediaIdsRef, probes)
  /\ last' = [NoLast EXCEPT !.op = "setPastAlerts", !.started = EffectStartsAfter(resolvingMediaIdsRef)]
  /\ Med_Frame

\* The condition of togglePastExpanded without "nextExpanded &&".
ToggleStartsAlways(nextExpanded, key, media, resolving) ==
  NeedsProbe(key, media, resolving)

\* nextExpanded && eventMediaById[key] === undefined
\*              && !resolvingMediaIdsRef.current.has(key)
ToggleStarts(nextExpanded, key, media, resolving) ==
  nextExpanded /\ NeedsProbe(key, media, resolving)

\* The button of a past row (shown to a user): the updater of
\* setExpandedPastById, then the media effect of the render.
togglePastExpanded(k) ==
  LET alertId == pastAlerts[k].id
      key == Str(pastAlerts[k].trigger_event)
      nextExpanded == ~(alertId \in DOMAIN expandedPastById
                        /\ expandedPastById[alertId])
      start == ToggleStarts(nextExpanded, key, eventMediaById,
                            resolvingMediaIdsRef)
      keys == IF start THEN {key} ELSE {}
  IN /\ mounted /\ user # NoUser
     /\ start => probes[key] < MaxProbes
     /\ expandedPastById' = SetKey(expandedPastById, alertId, nextExpanded)
     /\ UNCHANGED <<user, mounted, alerts, eventMediaById, pastAlerts>>
     /\ MediaEffectAfter(resolvingMediaIdsRef \cup keys, StartProbes(probes, keys))
     /\ last' = [NoLast EXCEPT
                  !.op = "toggle", !.alert = alertId,
                  !.started = keys \cup
                      EffectStartsAfter(resolvingMediaIdsRef \cup keys)]
     /\ Med_Frame

\* A resolveMediaForEventId(key) call is fulfilled: .then sets the entry,
\* .finally removes the key from the resolving set, and the view renders.
Med_Fulfilled(key, result) ==
  /\ probes[key] > 0
  /\ result \in MediaResults(key)
  /\ eventMediaById' = IF mounted THEN SetKey(eventMediaById, key, result)
                        ELSE eventMediaById
  /\ UNCHANGED <<user, mounted, alerts, pastAlerts, expandedPastById>>
  /\ MediaEffectAfter(resolvingMediaIdsRef \ {key},
                      [probes EXCEPT ![key] = @ - 1])
  /\ last' = [NoLast EXCEPT
               !.op = "fulfilled",
               !.started = EffectStartsAfter(resolvingMediaIdsRef \ {key})]
  /\ Med_Frame

\* A resolveMediaForEventId(key) call is rejected: only .finally runs; no
\* state is set, so the view does not render.
Med_Rejected(key) ==
  /\ probes[key] > 0
  /\ resolvingMediaIdsRef' = resolvingMediaIdsRef \ {key}
  /\ probes' = [probes EXCEPT ![key] = @ - 1]
  /\ last' = [NoLast EXCEPT !.op = "rejected"]
  /\ UNCHANGED <<user, mounted, alerts, eventMediaById, pastAlerts,
                 expandedPastById>>
  /\ Med_Frame

\* The view renders for a state change elsewhere (a poll starts, a flag of
\* dismissAlert changes): the media effect runs, its dependency
\* resolveMediaForEventId being new on every render.
Med_Render ==
  /\ mounted
  /\ UNCHANGED <<user, mounted, alerts, eventMediaById, pastAlerts,
                 expandedPastById>>
  /\ MediaEffectAfter(resolvingMediaIdsRef, probes)
  /\ last' = [NoLast EXCEPT !.op = "render", !.started = EffectStartsAfter(resolvingMediaIdsRef)]
  /\ Med_Frame

MediaNext ==
  \/ \E u \in {"u1", NoUser} : Med_User(u)
  \/ Med_Unmount
  \/ \E ids \in SUBSET AlertIds : Med_SetAlerts(ids)
  \/ \E ids \in SUBSET AlertIds : Med_SetPastAlerts(ids)
  \/ \E k \in 1..Len(pastAlerts) : togglePastExpanded(k)
  \/ \E key \in EventKeys :
        \E result \in MediaResults(key) : Med_Fulfilled(key, result)
  \/ \E key \in EventKeys : Med_Rejected(key)
  \/ Med_Render

SpecMedia == Init /\ [][MediaNext]_vars

\* C18: no probe is started for an event id the media map holds an entry for
\* (a media or the null), by the effect or by the expansion of a past row, and
\* an entry of the map is never removed or replaced.
C18_ResolvedNeverReprobed ==
  [][/\ \A key \in last'.started :
          key \notin DOMAIN eventMediaById /\ key \notin DOMAIN eventMediaById'
     /\ \A key \in DOMAIN eventMediaById :
          /\ key \in DOMAIN eventMediaById'
          /\ eventMediaById'[key] = eventMediaById[key]]_vars

\* C18 witness: a past row was expanded whose event is also the event of an
\* active alert and is cached as null; no probe was started.
C18_Witness ==
  /\ last.op = "toggle" /\ last.started = {}
  /\ expandedPastById[last.alert]
  /\ LET key == Str(TriggerEventOf(last.alert))
     IN /\ key \in DOMAIN eventMediaById /\ eventMediaById[key] = NoMedia
        /\ key \in UniqueEventIds(alerts)

\* C19: at most one resolveMediaForEventId call per event id is unsettled,
\* and the resolving set holds exactly the event ids with an unsettled call.
C19_OneProbePerEvent ==
  \A key \in EventKeys :
    /\ probes[key] <= 1
    /\ key \in resolvingMediaIdsRef <=> probes[key] = 1

\* C19 witness: a past row was expanded while the probe the effect had started
\* for its event was unsettled; the expansion started none.
C19_Witness ==
  /\ last.op = "toggle" /\ last.started = {}
  /\ expandedPastById[last.alert]
  /\ LET key == Str(TriggerEventOf(last.alert))
     IN /\ key \in resolvingMediaIdsRef /\ probes[key] = 1
        /\ key \in UniqueEventIds(alerts)

\* prev[alertId] of the expansion map: the row is expanded.
Expanded(map, alertId) == alertId \in DOMAIN map /\ map[alertId]

\* C23: a probe for an event id that no active alert references (it is
\* referenced by past alerts only) is started only by the toggle of a past row
\* of that event, in the step in which the row goes from collapsed to
\* expanded; the collapse of a row and the arrival of past alerts by polling
\* start no such probe.
C23_PastProbedOnlyOnExpand ==
  [][/\ \A key \in last'.started :
          key \notin UniqueEventIds(alerts') =>
            /\ last'.op = "toggle"
            /\ \E k \in 1..Len(pastAlerts) :
                  /\ pastAlerts[k].id = last'.alert
                  /\ pastAlerts[k].trigger_event[2] = key[2]
            /\ ~Expanded(expandedPastById, last'.alert)
            /\ Expanded(expandedPastById', last'.alert)
     /\ (last'.op = "toggle" /\ ~Expanded(expandedPastById', last'.alert)) =>
          last'.started \subseteq UniqueEventIds(alerts')
     /\ last'.op = "setPastAlerts" =>
          last'.started \subseteq UniqueEventIds(alerts')]_vars

\* C23 witness: a past row was expanded while active alerts were listed, none
\* of them for the event of the row, and the expansion started the probe.
C23_Witness ==
  /\ last.op = "toggle"
  /\ Expanded(expandedPastById, last.alert)
  /\ LET key == Str(TriggerEventOf(last.alert))
     IN /\ last.started = {key}
        /\ key \in resolvingMediaIdsRef
        /\ key \notin UniqueEventIds(alerts)
        /\ alerts # <<>>

----------------------------------------------------------------------------
\* The media map of src/app/page.tsx next to the state the rest of the page
\* sets: the error strings of the two pollers and the busy flags of
\* dismissAlert, represented by the state updates that set them.  No past row
\* is expanded, and an error carries no message.

\* err?.message ?? "Failed to load past alerts"
PastLoadErrorText(msg) ==
  IF msg = Null THEN "Failed to load past alerts" ELSE msg

Fra_Frame == UNCHANGED <<intervalId, inflight, loadingAlerts, isFirstLoadRef,
                         seenAlertIdsRef, knownAlertIdsRef, soundEnabled,
                         pollerSound, succeeded, everCompleted, dismissReqs,
                         res, otherVars>>

\* A fetch of the running active-alerts poller fails:
\* setAlertsError(err?.message ?? "Failed to load alerts"); the view renders.
Fra_PollFailed(msg) ==
  /\ mounted /\ user # NoUser
  /\ alertsError' = LoadErrorText(msg)
  /\ UNCHANGED <<user, mounted, alerts, eventMediaById, pastAlerts,
                 expandedPastById, pastAlertsError, dismissingById>>
  /\ MediaEffectAfter(resolvingMediaIdsRef, probes)
  /\ last' = [NoLast EXCEPT !.op = "pollFailed",
                            !.started = EffectStartsAfter(resolvingMediaIdsRef)]
  /\ Fra_Frame

\* A fetch of the running past-alerts poller fails:
\* setPastAlertsError(err?.message ?? "Failed to load past alerts").
Fra_PastPollFailed(msg) ==
  /\ mounted /\ user # NoUser
  /\ pastAlertsError' = PastLoadErrorText(msg)
  /\ UNCHANGED <<user, mounted, alerts, eventMediaById, pastAlerts,
                 expandedPastById, alertsError, dismissingById>>
  /\ MediaEffectAfter(resolvingMediaIdsRef, probes)
  /\ last' = [NoLast EXCEPT !.op = "pastPollFailed",
                            !.started = EffectStartsAfter(resolvingMediaIdsRef)]
  /\ Fra_Frame

\* The "Dismiss" button of a listed alert, up to the await of dismissAlert:
\* setAlertsError(null); setDismissingById(prev => ({ ...prev, [alertId]: true })).
Fra_DismissStarted(alertId) ==
  /\ mounted /\ user # NoUser
  /\ \E k \in 1..Len(alerts) : alerts[k].id = alertId
  /\ ~DismissDisabled(alertId)
  /\ alertsError' = Null
  /\ dismissingById' = SetKey(dismissingById, alertId, TRUE)
  /\ UNCHANGED <<user, mounted, alerts, eventMediaById, pastAlerts,
                 expandedPastById, pastAlertsError>>
  /\ MediaEffectAfter(resolvingMediaIdsRef, probes)
  /\ last' = [NoLast EXCEPT !.op = "dismiss", !.alert = alertId,
                            !.started = EffectStartsAfter(resolvingMediaIdsRef)]
  /\ Fra_Frame

FrameNext ==
  \/ \E u \in {"u1", NoUser} : Med_User(u)
  \/ Med_Unmount
  \/ \E ids \in SUBSET AlertIds : Med_SetAlerts(ids)
  \/ \E ids \in SUBSET AlertIds : Med_SetPastAlerts(ids)
  \/ \E key \in EventKeys :
        \E result \in MediaResults(key) : Med_Fulfilled(key, result)
  \/ \E key \in EventKeys : Med_Rejected(key)
  \/ Fra_PollFailed(Null)
  \/ Fra_PastPollFailed(Null)
  \/ \E alertId \in AlertIds : Fra_DismissStarted(alertId)

SpecFrame == Init /\ [][FrameNext]_vars

\* The event ids whose entry of the media map a step set or changed.
ChangedEntries ==
  {key \in DOMAIN eventMediaById' :
     key \notin DOMAIN eventMediaById
       \/ eventMediaById'[key] # eventMediaById[key]}

\* C24: the step in which a media resolution settles, fulfilled with a media
\* or with null, or rejected, leaves the active list, the past list, the busy
\* flags and both error strings as they were; in the media map it removes no
\* entry and sets at most the entry of the one event id it leaves the
\* resolving set for.
C24_ResolutionFrame ==
  [][last'.op \in {"fulfilled", "rejected"} =>
       /\ UNCHANGED <<alerts, pastAlerts, dismissingById, alertsError,
                      pastAlertsError>>
       /\ DOMAIN eventMediaById \subseteq DOMAIN eventMediaById'
       /\ ChangedEntries \subseteq
            (resolvingMediaIdsRef \ resolvingMediaIdsRef')
       /\ Cardinality(ChangedEntries) <= 1]_vars

\* C24 witness: a resolution settled with null while both lists were
\* non-empty, both error strings were set, an alert was busy, and the map
\* held the entry of another event.
C24_Witness ==
  /\ last.op = "fulfilled" /\ mounted
  /\ alerts # <<>> /\ pastAlerts # <<>>
  /\ alertsError # Null /\ pastAlertsError # Null
  /\ \E alertId \in DOMAIN dismissingById : dismissingById[alertId]
  /\ Cardinality(DOMAIN eventMediaById) = 2
  /\ \E key \in DOMAIN eventMediaById : eventMediaById[key] = NoMedia

----------------------------------------------------------------------------
\* resolveMediaForEventId and urlExists of src/app/page.tsx, one call followed
\* request by request.  The storage answers each request with a 2xx status
\* ("ok"), with another status ("notok"), or the fetch throws ("throw").

Outcomes == {"ok", "notok", "throw"}

\* What the storage answers to the HEAD and to the ranged GET of each
\* candidate extension, in the order of candidateExts.
Worlds == [1..Len(candidateExts) -> [head : Outcomes, get : Outcomes]]

Res_Frame == UNCHANGED <<user, mounted, intervalId, inflight, alerts,
                         loadingAlerts, alertsError, isFirstLoadRef,
                         seenAlertIdsRef, knownAlertIdsRef, soundEnabled,
                         pollerSound, succeeded, last, everCompleted,
                         dismissVars, mediaVars, otherVars>>

\* The second try block without its catch.
GetUncaught(outcome) ==
  CASE outcome = "ok" -> "true"
    [] outcome = "notok" -> "false"
    [] outcome = "throw" -> "threw"

\* try { const get = await fetch(...); return get.ok } catch { return false }:
\* what urlExists does with the outcome of the ranged GET.
UrlExistsAfterGet(outcome) ==
  CASE outcome = "ok" -> "true"
    [] outcome = "notok" -> "false"
    [] outcome = "throw" -> "false"

\* resolveMediaForEventId(eventId) up to the first await: the public URL of
\* the first candidate, and urlExists up to its HEAD request.
Res_Call(eventId, world) ==
  /\ res.pc \in {"idle", "done", "rejected"}
  /\ res' = [pc |-> "head", eventId |-> eventId, world |-> world, i |-> 1,
             probed |-> <<[ext |-> candidateExts[1], method |-> "HEAD"]>>,
             returned |-> <<>>,
             result |-> NoMedia]
  /\ Res_Frame

\* After the loop, or at the return inside it: the call settles.  Otherwise
\* the next candidate: its public URL, and urlExists up to its HEAD request.
Res_Continue(exists) ==
  IF exists
  THEN res' = [res EXCEPT !.pc = "done",
                          !.returned = Append(@, TRUE),
                          !.result = MediaOf(res.eventId, candidateExts[res.i])]
  ELSE IF res.i = Len(candidateExts)
  THEN res' = [res EXCEPT !.pc = "done", !.returned = Append(@, FALSE),
                          !.result = NoMedia]
  ELSE res' = [res EXCEPT
                 !.pc = "head", !.i = @ + 1,
                 !.returned = Append(@, FALSE),
                 !.probed = Append(@, [ext |-> candidateExts[res.i + 1],
                                       method |-> "HEAD"])]

\* urlExists: the HEAD request settles.  if (head.ok) return true; a throw is
\* caught; otherwise the ranged GET is sent.
Res_Head ==
  /\ res.pc = "head"
  /\ IF res.world[res.i].head = "ok"
     THEN Res_Continue(TRUE)
     ELSE res' = [res EXCEPT
                    !.pc = "get",
                    !.probed = Append(@, [ext |-> candidateExts[res.i],
                                          method |-> "GET"])]
  /\ Res_Frame

\* urlExists: the ranged GET settles.  return get.ok; a throw returns false.
\* A throw that left urlExists would reject the resolveMediaForEventId call,
\* which awaits it outside any try.
Res_Get ==
  /\ res.pc = "get"
  /\ LET r == UrlExistsAfterGet(res.world[res.i].get)
     IN IF r = "threw"
        THEN res' = [res EXCEPT !.pc = "rejected"]
        ELSE Res_Continue(r = "true")
  /\ Res_Frame

ResolveNext ==
  \/ \E eventId \in EventKeys, world \in Worlds : Res_Call(eventId, world)
  \/ Res_Head
  \/ Res_Get

SpecResolve == Init /\ [][ResolveNext]_vars

\* The object of the i-th candidate extension exists, as far as the probes
\* of the call can tell.
ObjectExists(i) == res.world[i].head = "ok" \/ res.world[i].get = "ok"

\* The extensions requests were sent for, in the order of the first request.
RECURSIVE ProbedExts(_)
ProbedExts(reqs) ==
  IF reqs = <<>> THEN <<>>
  ELSE LET rest == ProbedExts(SubSeq(reqs, 1, Len(reqs) - 1))
           ext == reqs[Len(reqs)].ext
       IN IF rest # <<>> /\ rest[Len(rest)] = ext THEN rest
          ELSE Append(rest, ext)

\* C20: the video extensions come before the image extensions; a settled
\* call has sent requests for the candidates in that order up to the first one
\* whose object exists and for none after it, and returns the public URL of
\* that one, with kind "image" iff it is an image extension and "video"
\* otherwise; it returns null iff no candidate's object exists.
C20_FirstExistingWins ==
  /\ candidateExts = <<"mov", "jpg">>
  /\ res.pc = "done" =>
       LET found == {i \in 1..Len(candidateExts) : ObjectExists(i)}
       IN IF found = {}
          THEN /\ res.result = NoMedia
               /\ ProbedExts(res.probed) = candidateExts
          ELSE LET f == CHOOSE i \in found : \A j \in found : i <= j
               IN /\ res.result # NoMedia
                  /\ res.result.url = <<"falls", res.eventId[2], candidateExts[f]>>
                  /\ res.result.kind =
                       (IF candidateExts[f] \in {"jpg"} THEN "image" ELSE "video")
                  /\ ProbedExts(res.probed) = SubSeq(candidateExts, 1, f)

\* C20 witness: the video candidate was not found by HEAD nor by GET, and the
\* image candidate was found.
C20_Witness ==
  /\ res.pc = "done"
  /\ res.result.kind = "image"
  /\ Len(res.probed) >= 3
  /\ res.probed[1].ext = "mov" /\ res.probed[2].ext = "mov"

\* A request of the followed call for the i-th candidate, by the given method.
Requested(i, method) ==
  \E k \in 1..Len(res.probed) :
     res.probed[k] = [ext |-> candidateExts[i], method |-> method]

\* C21: urlExists returns true iff the HEAD answers 2xx, or the HEAD fails (a
\* throw or another status) and the ranged GET answers 2xx; the ranged GET is
\* sent exactly when the HEAD did not confirm; urlExists never throws and
\* returns false when both requests fail.
C21_UrlExistsContract ==
  /\ res.pc # "rejected"
  /\ res.pc # "idle" =>
       /\ \A i \in 1..Len(res.returned) :
            LET head == res.world[i].head
                get == res.world[i].get
            IN /\ res.returned[i] <=>
                    (head = "ok" \/ (head \in {"notok", "throw"} /\ get = "ok"))
               /\ Requested(i, "HEAD")
               /\ Requested(i, "GET") <=> head # "ok"
               /\ (head # "ok" /\ get # "ok") => ~res.returned[i]
       /\ \A i \in 1..Len(candidateExts) :
            Requested(i, "GET") => (Requested(i, "HEAD") /\ res.world[i].head # "ok")

\* C21 witness: for the first URL both requests threw and urlExists returned
\* false; for the second the HEAD answered another status and the GET 2xx.
C21_Witness ==
  /\ res.pc = "done"
  /\ res.world[1] = [head |-> "throw", get |-> "throw"]
  /\ res.world[2] = [head |-> "notok", get |-> "ok"]
  /\ res.returned = <<FALSE, TRUE>>

----------------------------------------------------------------------------
\* The resolver with the signed-URL fallback of src/unnamed/part_002 (first
\* component), one call followed request by request, with the media effect
\* that starts it and the .then/.finally that settle it.  urlExists is the
\* same function as in page.tsx; here one call of it is one step that answers
\* yes or no.  The lists applied are those for which the effect starts at most
\* one call, and none while a call is running.

Sgn_candidateImageExts == <<"jpg">>
Sgn_candidateVideoExts == <<"mov", "mp4", "webm">>
Sgn_candidateExts == Sgn_candidateVideoExts \o Sgn_candidateImageExts

\* data.signedUrl of createSignedUrl(`${eventId}.${ext}`, 60 * 60)
SignedUrl(eventId, ext) == <<"falls", eventId[2], ext, "signed">>

\* What createSignedUrl may answer: a signed URL, { error }, or a throw.
SignOutcomes == {"url", "error", "throw"}

\* The try block around createSignedUrl without its catch.
SignUncaught(outcome) ==
  CASE outcome = "url" -> "probe"
    [] outcome = "error" -> "next"
    [] outcome = "throw" -> "threw"

\* try { const { data, error } = await createSignedUrl(...);
\*       if (!error && data?.signedUrl) { ... } } catch {}
SignHandled(outcome) ==
  CASE outcome = "url" -> "probe"
    [] outcome = "error" -> "next"
    [] outcome = "throw" -> "next"

Sgn_Frame == UNCHANGED <<intervalId, inflight, loadingAlerts, alertsError,
                         isFirstLoadRef, seenAlertIdsRef, knownAlertIdsRef,
                         soundEnabled, pollerSound, succeeded, everCompleted,
                         dismissVars, probes, pastAlerts, expandedPastById,
                         pastAlertsError, otherVars>>

\* useAuth delivers an identity: the view renders; no dependency of the media
\* effect changed.
Sgn_User(u) ==
  /\ mounted
  /\ u # user
  /\ user' = u
  /\ last' = [NoLast EXCEPT !.op = "user"]
  /\ UNCHANGED <<mounted, alerts, eventMediaById, resolvingMediaIdsRef, res>>
  /\ Sgn_Frame

\* The view unmounts.
Sgn_Unmount ==
  /\ mounted
  /\ mounted' = FALSE
  /\ last' = [NoLast EXCEPT !.op = "unmount"]
  /\ UNCHANGED <<user, alerts, eventMediaById, resolvingMediaIdsRef, res>>
  /\ Sgn_Frame

\* The event ids the media effect of this component starts a call for.
Sgn_EffectStarts(list, media, resolving) ==
  IF Len(list) = 0 THEN {}
  ELSE {key \in UniqueEventIds(list) : NeedsProbe(key, media, resolving)}

\* A fetch of the poller is applied: setAlerts(withEvents), then the media
\* effect: for an event id without entry that is not being resolved, the add
\* to the resolving set and resolveMediaForEventId up to its first await.
Sgn_SetAlerts(ids) ==
  LET list == WithEvents(OrderDesc(ids),
                         {EventRow(TriggerEvent(id)) : id \in ids})
      starts == Sgn_EffectStarts(list, eventMediaById, resolvingMediaIdsRef)
  IN /\ mounted /\ user # NoUser
     /\ ids \subseteq AlertsOf(user)
     /\ Cardinality(starts) <= 1
     /\ starts # {} => res.pc \in {"idle", "done"}
     /\ alerts' = list
     /\ resolvingMediaIdsRef' = resolvingMediaIdsRef \cup starts
     /\ res' = IF starts = {} THEN res
               ELSE [pc |-> "public",
                     eventId |-> CHOOSE key \in starts : TRUE,
                     i |-> 1,
                     log |-> <<[ext |-> Sgn_candidateExts[1], req |-> "public"]>>,
                     result |-> NoMedia]
     /\ last' = [NoLast EXCEPT !.op = "setAlerts", !.started = starts]
     /\ UNCHANGED <<user, mounted, eventMediaById>>
     /\ Sgn_Frame

\* The call returns: .then sets the entry of the event id (the state of an
\* unmounted component is out of reach), .finally removes the id from the
\* resolving set.
Sgn_Return(result) ==
  /\ res' = [res EXCEPT !.pc = "done", !.result = result]
  /\ eventMediaById' = IF mounted THEN SetKey(eventMediaById, res.eventId, result)
                        ELSE eventMediaById
  /\ resolvingMediaIdsRef' = resolvingMediaIdsRef \ {res.eventId}

\* The end of the loop body: the next extension with its public URL probe, or
\* after the last one "return null".
Sgn_NextExt ==
  IF res.i = Len(Sgn_candidateExts)
  THEN Sgn_Return(NoMedia)
  ELSE /\ res' = [res EXCEPT
                    !.pc = "public", !.i = @ + 1,
                    !.log = Append(@, [ext |-> Sgn_candidateExts[res.i + 1],
                                       req |-> "public"])]
       /\ UNCHANGED <<eventMediaById, resolvingMediaIdsRef>>

\* urlExists(publicUrl) answers: the public URL is returned, or the signed URL
\* is requested.
Sgn_Public(exists) ==
  LET ext == Sgn_candidateExts[res.i]
  IN /\ res.pc = "public"
     /\ IF exists
        THEN Sgn_Return([url |-> PublicUrl(res.eventId, ext),
                         kind |-> inferKindFromExt(ext)])
        ELSE /\ res' = [res EXCEPT
                          !.pc = "sign",
                          !.log = Append(@, [ext |-> ext, req |-> "sign"])]
             /\ UNCHANGED <<eventMediaById, resolvingMediaIdsRef>>
     /\ last' = [NoLast EXCEPT !.op = "public",
                               !.stage = IF exists THEN "yes" ELSE "no"]
     /\ UNCHANGED <<user, mounted, alerts>>
     /\ Sgn_Frame

\* createSignedUrl answers: urlExists(data.signedUrl) is called, or the loop
\* goes on.  A throw that left the try block would reject the call.
Sgn_Sign(outcome) ==
  LET ext == Sgn_candidateExts[res.i]
      then == SignHandled(outcome)
  IN /\ res.pc = "sign"
     /\ CASE then = "probe" ->
               /\ res' = [res EXCEPT
                            !.pc = "signed",
                            !.log = Append(@, [ext |-> ext, req |-> "signed"])]
               /\ UNCHANGED <<eventMediaById, resolvingMediaIdsRef>>
          [] then = "next" -> Sgn_NextExt
          [] then = "threw" ->
               /\ res' = [res EXCEPT !.pc = "rejected"]
               /\ resolvingMediaIdsRef' = resolvingMediaIdsRef \ {res.eventId}
               /\ UNCHANGED eventMediaById
     /\ last' = [NoLast EXCEPT !.op = "sign", !.stage = outcome]
     /\ UNCHANGED <<user, mounted, alerts>>
     /\ Sgn_Frame

\* urlExists(data.signedUrl) answers: the signed URL is returned, or the loop
\* goes on.
Sgn_Signed(exists) ==
  LET ext == Sgn_candidateExts[res.i]
  IN /\ res.pc = "signed"
     /\ IF exists
        THEN Sgn_Return([url |-> SignedUrl(res.eventId, ext),
                         kind |-> inferKindFromExt(ext)])
        ELSE Sgn_NextExt
     /\ last' = [NoLast EXCEPT !.op = "signed",
                               !.stage = IF exists THEN "yes" ELSE "no"]
     /\ UNCHANGED <<user, mounted, alerts>>
     /\ Sgn_Frame

SignedNext ==
  \/ \E u \in {"u1", NoUser} : Sgn_User(u)
  \/ Sgn_Unmount
  \/ \E ids \in SUBSET AlertIds : Sgn_SetAlerts(ids)
  \/ \E exists \in BOOLEAN : Sgn_Public(exists)
  \/ \E outcome \in SignOutcomes : Sgn_Sign(outcome)
  \/ \E exists \in BOOLEAN : Sgn_Signed(exists)

SpecSigned == Init /\ [][SignedNext]_vars

\* The requests of a call so far are well ordered: the public URL probes are
\* for mov, mp4, webm, jpg in this order; a signing request directly follows
\* the public URL probe of its extension, a probe of the signed URL directly
\* follows the signing request of its extension, and the public URL probe of
\* the next extension follows only a signing request or a signed URL probe.
WellOrdered(log) ==
  LET exts == <<"mov", "mp4", "webm", "jpg">>
      publics == SelectSeq(log, LAMBDA r : r.req = "public")
  IN /\ Len(publics) <= 4
     /\ \A n \in 1..Len(publics) : publics[n].ext = exts[n]
     /\ Len(log) > 0 => log[1].req = "public"
     /\ \A p \in 2..Len(log) :
          CASE log[p].req = "sign" ->
                 log[p - 1] = [ext |-> log[p].ext, req |-> "public"]
            [] log[p].req = "signed" ->
                 log[p - 1] = [ext |-> log[p].ext, req |-> "sign"]
            [] log[p].req = "public" ->
                 /\ log[p - 1].req \in {"sign", "signed"}
                 /\ log[p - 1].ext # log[p].ext

\* C22: in the resolver with the signed-URL fallback the extensions are tried
\* in the order mov, mp4, webm, jpg; the signed URL of an extension is
\* requested only after the public URL probe of that extension failed, and
\* before the next extension is tried; an error of the signing call, returned
\* or thrown, is swallowed and the call moves on to the next extension; when
\* no extension resolves, the call returns null and the entry of the event id
\* in the media map of the mounted view is null, present and not absent.
C22_SignedFallbackOrder ==
  [][/\ res'.pc # "rejected"
     /\ res'.pc # "idle" => WellOrdered(res'.log)
     /\ (res'.pc = "sign" /\ res.pc # "sign") =>
          (last'.op = "public" /\ last'.stage = "no")
     /\ (last'.op = "sign" /\ last'.stage \in {"error", "throw"}) =>
          IF res.i < 4
          THEN /\ res'.pc = "public" /\ res'.i = res.i + 1
               /\ res'.log[Len(res'.log)].req = "public"
          ELSE res'.pc = "done" /\ res'.result = NoMedia
     /\ (res'.pc = "done" /\ last'.op \in {"public", "sign", "signed"}) =>
          /\ res'.result = NoMedia <=> last'.stage # "yes"
          /\ res'.result = NoMedia => res.i = 4
          /\ res'.eventId \notin resolvingMediaIdsRef'
          /\ mounted =>
               /\ res'.eventId \in DOMAIN eventMediaById'
               /\ eventMediaById'[res'.eventId] = res'.result]_vars

\* C22 witness: no extension resolved, the last signing call threw, and the
\* entry of the event id is the null.
C22_Witness ==
  /\ last.op = "sign" /\ last.stage = "throw"
  /\ res.pc = "done" /\ res.result = NoMedia /\ mounted
  /\ res.eventId \in DOMAIN eventMediaById
  /\ eventMediaById[res.eventId] = NoMedia
  /\ Len(SelectSeq(res.log, LAMBDA r : r.req = "signed")) >= 2

----------------------------------------------------------------------------
\* The seen-id poller of src/unnamed/part_001 with its audio: the identity is
\* u1 or none, an error carries no message, the events lookup finds every
\* referenced event, and a playDing call meets any of the audio outcomes.

AudioNext ==
  \/ \E u \in {"u1", NoUser} : Seen_Effect(u)
  \/ Seen_Unmount
  \/ Seen_Tick
  \/ \E i \in 1..Len(inflight) : Seen_AlertsErr(i, Null)
  \/ \E i \in 1..Len(inflight), ids \in SUBSET AlertIds : Seen_AlertsOk(i, ids)
  \/ \E i \in 1..Len(inflight) : Seen_EventsErr(i, Null)
  \/ \E i \in 1..Len(inflight), audio \in AudioOutcomes :
        Seen_EventsOk(i, AllEvents(i), audio)

SpecAudio == Init /\ [][AudioNext]_vars

\* C25: in the seen-id poller, whatever the audio does in playDing, the poll
\* of the running poller whose events lookup answered applies its fetched
\* list to the alerts list and leaves the error string as it was, also when it
\* called playDing.
C25_AudioNeverAffectsPoll ==
  [][\A i \in 1..Len(inflight) : \A audio \in AudioOutcomes :
       (/\ inflight[i].live
        /\ inflight[i].stage = "events"
        /\ Seen_EventsOk(i, AllEvents(i), audio)) =>
          /\ Len(alerts') = Len(inflight[i].rows)
          /\ \A k \in 1..Len(alerts') : alerts'[k].id = inflight[i].rows[k]
          /\ alertsError' = alertsError
          /\ last'.op = "commit"]_vars

\* C25 witness: a later poll found a new alert and called playDing, the resume
\* of the audio context failed, and the list shows the alert without error.
C25_Witness ==
  /\ last.op = "commit" /\ last.live /\ last.dings = 1
  /\ last.audio = "resumeFails"
  /\ alerts # <<>> /\ alertsError = Null
  /\ last.news > 0

----------------------------------------------------------------------------
\* The poller of src/app/page.tsx with its join: the identity is u1 or none
\* and an error carries no message; the alerts query returns any of the
\* user's rows and the events lookup any of the referenced rows.

JoinNext ==
  \/ \E u \in {"u1", NoUser} : Page_Effect(u)
  \/ Page_Unmount
  \/ Page_Tick
  \/ \E i \in 1..Len(inflight) : Page_AlertsErr(i, Null)
  \/ \E i \in 1..Len(inflight), ids \in SUBSET AlertIds : Page_AlertsOk(i, ids)
  \/ \E i \in 1..Len(inflight) : Page_EventsErr(i, Null)
  \/ \E i \in 1..Len(inflight) :
        \E eventsData \in EventRowsFor(EventIdsOf(inflight[i].rows)) :
          Page_EventsOk(i, eventsData)

SpecJoin == Init /\ [][JoinNext]_vars

\* The rows of eventsData whose id, as a string, is the trigger_event of the
\* alert a, as a string.
JoinedRows(a, eventsData) == {e \in eventsData : e.id[2] = a.trigger_event[2]}

\* C29: when a running poller applies a fetch whose events lookup returned
\* eventsData, every alert of the list has as its event the returned row whose
\* id and the alert's trigger_event are the same string, whichever of number
\* and string each arrived as, and has null as its event iff no returned row
\* has that id.
C29_JoinByStringifiedId ==
  [][\A i \in 1..Len(inflight) :
       \A eventsData \in EventRowsFor(EventIdsOf(inflight[i].rows)) :
         (inflight[i].live /\ Page_EventsOk(i, eventsData)) =>
           /\ Len(alerts') = Len(inflight[i].rows)
           /\ \A k \in 1..Len(alerts') :
                LET a == alerts'[k]
                IN /\ a.id = inflight[i].rows[k]
                   /\ (a.event = NoEvent) <=> (JoinedRows(a, eventsData) = {})
                   /\ a.event # NoEvent => a.event \in JoinedRows(a, eventsData)]_vars

\* C29 witness: the list applied last joins an alert whose trigger_event
\* arrived as a string with an event row whose id arrived as a number, and
\* holds an alert whose event the lookup did not return.
C29_Witness ==
  /\ last.op = "commit" /\ last.live
  /\ \E k \in 1..Len(alerts) :
       /\ alerts[k].trigger_event[1] = "str"
       /\ alerts[k].event # NoEvent
       /\ alerts[k].event.id = <<"num", alerts[k].trigger_event[2]>>
  /\ \E k \in 1..Len(alerts) : alerts[k].event = NoEvent

\* The fetches that await the answer of an events lookup.
AwaitingEvents(s) == {j \in 1..Len(s) : s[j].stage = "events"}

\* C30: a fetch has issued no events lookup while it awaits the alerts query
\* and exactly one while it awaits the lookup's answer, for the set of the
\* trigger_event values of the rows the alerts query returned; an alerts
\* query that returns no row ends the fetch without any lookup, and the alerts
\* list of a running poller becomes empty.
C30_OneBatchedLookup ==
  [][/\ \A j \in 1..Len(inflight') :
          LET f == inflight'[j]
          IN /\ Len(f.lookups) <= 1
             /\ f.stage = "alerts" => f.lookups = <<>>
             /\ f.stage = "events" =>
                  /\ Len(f.lookups) = 1
                  /\ f.rows # <<>>
                  /\ f.lookups[1] =
                       {TriggerEventOf(f.rows[k]) : k \in 1..Len(f.rows)}
     /\ \A i \in 1..Len(inflight) :
          Page_AlertsOk(i, {}) =>
            /\ Len(inflight') = Len(inflight) - 1
            /\ Cardinality(AwaitingEvents(inflight')) =
                 Cardinality(AwaitingEvents(inflight))
            /\ inflight[i].live => alerts' = <<>>]_vars

\* C30 witness: a fetch of the running poller awaits the one lookup it issued
\* for the two events of the two rows its alerts query returned.
C30_Witness ==
  /\ last.op = "rows" /\ last.live
  /\ \E j \in 1..Len(inflight) :
       /\ inflight[j].stage = "events" /\ inflight[j].live
       /\ Len(inflight[j].rows) = 2
       /\ Len(inflight[j].lookups) = 1
       /\ Cardinality(inflight[j].lookups[1]) = 2

\* C30 witness, second case: an alerts query without rows emptied the list on
\* display.
C30_WitnessEmpty ==
  /\ last.op = "commit" /\ last.live
  /\ alerts = <<>>

\* A step in which the running seen-id poller called playDing, and the ids
\* the call was made for.
SeenNotifyStep == last'.op = "commit" /\ last'.live /\ last'.dings > 0
SeenNotifiedIds == IdsOf(alerts') \ seenAlertIdsRef

----------------------------------------------------------------------------
\* dismissAlert of src/app/page.tsx next to its poller, with the backend's
\* record of the dismissals: the dismiss-alert function marks the alert as
\* dismissed before its answer arrives, a failed call marked nothing, and the
\* alerts query (.neq("status", "dismissed")) returns no dismissed alert.  The
\* poller's inputs are reduced as for SpecDismiss.

\* The alerts query answers with rows that are not dismissed in the backend.
Rac_AlertsOk(i, ids) ==
  /\ ids \cap backendDismissed = {}
  /\ Page_AlertsOk(i, ids)

\* The dismiss-alert function, invoked by call i, marks the alert as dismissed.
Rac_BackendDismisses(i) ==
  /\ dismissReqs[i].alertId \notin backendDismissed
  /\ backendDismissed' = backendDismissed \cup {dismissReqs[i].alertId}
  /\ last' = [NoLast EXCEPT !.op = "backend", !.alert = dismissReqs[i].alertId]
  /\ UNCHANGED <<user, mounted, intervalId, inflight, alerts, loadingAlerts,
                 alertsError, isFirstLoadRef, seenAlertIdsRef,
                 knownAlertIdsRef, soundEnabled, pollerSound, succeeded,
                 everCompleted, dismissVars, mediaVars, res, pastVars,
                 timers, pastTimers, providerVars>>

\* The answer of the function arrives without error.
Rac_DismissOk(i) ==
  /\ dismissReqs[i].alertId \in backendDismissed
  /\ Dismiss_Ok(i)

\* The call fails, and the backend did not mark the alert.
Rac_DismissErr(i, how) ==
  /\ dismissReqs[i].alertId \notin backendDismissed
  /\ Dismiss_Err(i, Null, how)

RaceNext ==
  \/ \E u \in {"u1", NoUser} : Page_Effect(u)
  \/ Page_Unmount
  \/ Dis_Tick
  \/ \E i \in 1..Len(inflight) : Page_AlertsErr(i, Null)
  \/ \E i \in 1..Len(inflight), ids \in SUBSET AlertIds : Rac_AlertsOk(i, ids)
  \/ \E i \in 1..Len(inflight) : Page_EventsErr(i, Null)
  \/ \E i \in 1..Len(inflight) : Page_EventsOk(i, AllEvents(i))
  \/ \E alertId \in AlertIds : dismissAlert(alertId)
  \/ \E i \in 1..Len(dismissReqs) : Rac_BackendDismisses(i)
  \/ \E i \in 1..Len(dismissReqs) : Rac_DismissOk(i)
  \/ \E i \in 1..Len(dismissReqs), how \in DismissFailures : Rac_DismissErr(i, how)

SpecRace == Init /\ [][RaceNext]_vars

\* C32 as stated: once dismissAlert(X) has succeeded in the mounted view (the
\* backend reports X as dismissed and no call for X is suspended any more), X
\* is not in the alerts list, whatever poll response is applied afterwards.
C32_DismissedStaysRemoved ==
  mounted =>
    \A X \in backendDismissed :
      (\A i \in 1..Len(dismissReqs) : dismissReqs[i].alertId # X)
        => X \notin IdsOf(alerts)

----------------------------------------------------------------------------
\* The past-alerts poller next to the active-alerts poller: src/app/page.tsx
\* with its own first-load flag, and the variant of src/unnamed/part_003
\* (shared = TRUE), whose fetchPastAlertsOnce reads the first-load flag of the
\* active-alerts poller and clears none.  The identity is u1 or none, an error
\* carries no message and an events lookup finds every referenced event.

\* clearInterval left out of the cleanup.
ClearIntervalSkipped(n, had) == n

\* The cleanup of an effect run: if (intervalId) clearInterval(intervalId).
ClearInterval(n, had) == IF had THEN n - 1 ELSE n

\* isFirstPastLoadRef.current, or isFirstLoadRef.current in part_003.
PastFirstLoad(shared) == IF shared THEN isFirstLoadRef ELSE isFirstPastLoadRef

\* What the handlers of the two pollers leave alone.
Both_Frame == UNCHANGED <<seenAlertIdsRef, knownAlertIdsRef, soundEnabled,
                          pollerSound, dismissVars, eventMediaById,
                          resolvingMediaIdsRef, probes, expandedPastById, res,
                          backendDismissed, providerVars>>

\* A change of the identity: the cleanups of the two effects on
\* [user, supabase], then the active-alerts effect, then the past-alerts
\* effect; each starts its first fetch (up to the first await) and its timer.
Both_Effect(u, shared) ==
  /\ Page_EffectBody(u)
  /\ timers' = ClearInterval(timers, user # NoUser)
                 + (IF u # NoUser THEN 1 ELSE 0)
  /\ pastTimers' = ClearInterval(pastTimers, user # NoUser)
                     + (IF u # NoUser THEN 1 ELSE 0)
  /\ IF u = NoUser
     THEN /\ pastInflight' = TornDown(pastInflight)
          /\ UNCHANGED <<pastAlertsError, loadingPastAlerts>>
     ELSE /\ Len(pastInflight) < MaxInFlight
          /\ pastAlertsError' = Null
          /\ loadingPastAlerts' =
               IF PastFirstLoad(shared) THEN TRUE ELSE loadingPastAlerts
          /\ pastInflight' = Append(TornDown(pastInflight), NewFetch(u, TRUE, FALSE))
  /\ UNCHANGED <<pastAlerts, isFirstPastLoadRef>>
  /\ Both_Frame

\* The view unmounts: the cleanups of the two effects.
Both_Unmount ==
  /\ Page_UnmountBody
  /\ timers' = ClearInterval(timers, user # NoUser)
  /\ pastTimers' = ClearInterval(pastTimers, user # NoUser)
  /\ pastInflight' = TornDown(pastInflight)
  /\ UNCHANGED <<pastAlerts, pastAlertsError, loadingPastAlerts,
                 isFirstPastLoadRef>>
  /\ Both_Frame

Past_Frame == /\ UNCHANGED <<user, mounted, intervalId, inflight, alerts,
                             loadingAlerts, alertsError, isFirstLoadRef,
                             succeeded, everCompleted, timers, pastTimers>>
              /\ Both_Frame

\* setInterval(() => fetchPastAlertsOnce(), pollInterval): fetchPastAlertsOnce
\* up to its first await.
Past_Tick(shared) ==
  /\ pastTimers > 0
  /\ Len(pastInflight) < MaxInFlight
  /\ pastAlertsError' = Null
  /\ loadingPastAlerts' =
       IF PastFirstLoad(shared) THEN TRUE ELSE loadingPastAlerts
  /\ pastInflight' = Append(pastInflight, NewFetch(user, FALSE, FALSE))
  /\ last' = [NoLast EXCEPT !.op = "pastTick"]
  /\ UNCHANGED <<pastAlerts, isFirstPastLoadRef>>
  /\ Past_Frame

\* finally { if (isMounted && isFirstPastLoadRef.current) { setLoadingPastAlerts(false);
\*           isFirstPastLoadRef.current = false } }; part_003 reads
\* isFirstLoadRef.current and assigns no flag.
Past_Finally(f, shared) ==
  IF IsMounted(f) /\ PastFirstLoad(shared)
  THEN /\ loadingPastAlerts' = FALSE
       /\ isFirstPastLoadRef' = IF shared THEN isFirstPastLoadRef ELSE FALSE
  ELSE UNCHANGED <<loadingPastAlerts, isFirstPastLoadRef>>

\* if (!isMounted) return; setPastAlerts(withEvents); then finally.
Past_Commit(i, list, shared) ==
  LET f == pastInflight[i]
  IN /\ pastAlerts' = IF IsMounted(f) THEN list ELSE pastAlerts
     /\ pastInflight' = RemoveAt(pastInflight, i)
     /\ last' = [NoLast EXCEPT !.op = "pastCommit", !.live = f.live,
                               !.initial = f.initial]
     /\ Past_Finally(f, shared)
     /\ UNCHANGED pastAlertsError

\* catch (err) { if (isMounted) setPastAlertsError(err?.message ?? "Failed to load past alerts") },
\* then finally.
Past_Fail(i, msg, shared) ==
  LET f == pastInflight[i]
  IN /\ pastAlertsError' =
          IF IsMounted(f) THEN PastLoadErrorText(msg) ELSE pastAlertsError
     /\ pastInflight' = RemoveAt(pastInflight, i)
     /\ last' = [NoLast EXCEPT !.op = "pastFail", !.live = f.live,
                               !.initial = f.initial, !.stage = f.stage]
     /\ Past_Finally(f, shared)
     /\ UNCHANGED pastAlerts

\* The query for the dismissed alerts answers with an error.
Past_AlertsErr(i, msg, shared) ==
  /\ pastInflight[i].stage = "alerts"
  /\ Past_Fail(i, msg, shared)
  /\ Past_Frame

\* The query for the dismissed alerts answers with the rows `ids` of the user.
Past_AlertsOk(i, ids, shared) ==
  /\ pastInflight[i].stage = "alerts"
  /\ ids \subseteq AlertsOf(pastInflight[i].userId)
  /\ IF ids = {}
     THEN Past_Commit(i, <<>>, shared)
     ELSE /\ pastInflight' = [pastInflight EXCEPT ![i].stage = "events",
                                                  ![i].rows = OrderDesc(ids)]
          /\ last' = [NoLast EXCEPT !.op = "pastRows",
                                    !.live = pastInflight[i].live]
          /\ UNCHANGED <<pastAlerts, pastAlertsError, loadingPastAlerts,
                         isFirstPastLoadRef>>
  /\ Past_Frame

\* The events lookup of a past fetch answers with an error.
Past_EventsErr(i, msg, shared) ==
  /\ pastInflight[i].stage = "events"
  /\ Past_Fail(i, msg, shared)
  /\ Past_Frame

\* The events lookup of a past fetch answers with the rows of every
\* referenced event.
Past_EventsOk(i, shared) ==
  /\ pastInflight[i].stage = "events"
  /\ Past_Commit(i, WithEvents(pastInflight[i].rows,
                               {EventRow(e[2]) : e \in EventIdsOf(pastInflight[i].rows)}),
                 shared)
  /\ Past_Frame

\* A tick of the past-alerts poller that finds no call of the running poller
\* suspended.
Both_PastTick(shared) ==
  /\ \A j \in 1..Len(pastInflight) : ~pastInflight[j].live
  /\ Past_Tick(shared)

\* The rows a query returns in these specifications: none, or every alert the
\* backend holds for the user.
NoneOrAll == {{}, AlertsOf("u1")}

\* The variant of src/unnamed/part_003.
SharedNext ==
  \/ \E u \in {"u1", NoUser} : Both_Effect(u, TRUE)
  \/ Both_Unmount
  \/ Dis_Tick
  \/ \E i \in 1..Len(inflight) : Page_AlertsErr(i, Null)
  \/ \E i \in 1..Len(inflight), ids \in NoneOrAll : Page_AlertsOk(i, ids)
  \/ \E i \in 1..Len(inflight) : Page_EventsErr(i, Null)
  \/ \E i \in 1..Len(inflight) : Page_EventsOk(i, AllEvents(i))
  \/ Both_PastTick(TRUE)
  \/ \E i \in 1..Len(pastInflight) : Past_AlertsErr(i, Null, TRUE)
  \/ \E i \in 1..Len(pastInflight), ids \in NoneOrAll : Past_AlertsOk(i, ids, TRUE)
  \/ \E i \in 1..Len(pastInflight) : Past_EventsErr(i, Null, TRUE)
  \/ \E i \in 1..Len(pastInflight) : Past_EventsOk(i, TRUE)

SpecShared == Init /\ [][SharedNext]_vars

\* C35 as stated: in the variant of part_003, once a past-alerts fetch of the
\* running poller has completed, the past-alerts loading flag is false, in
\* whichever order the first fetches of the two pollers complete.
C35_PastLoadingEnds ==
  [][(last'.op \in {"pastCommit", "pastFail"} /\ last'.live)
       => ~loadingPastAlerts']_vars

\* The two pollers of src/app/page.tsx.
TimersNext ==
  \/ \E u \in {"u1", NoUser} : Both_Effect(u, FALSE)
  \/ Both_Unmount
  \/ Dis_Tick
  \/ \E i \in 1..Len(inflight) : Page_AlertsErr(i, Null)
  \/ \E i \in 1..Len(inflight), ids \in NoneOrAll : Page_AlertsOk(i, ids)
  \/ \E i \in 1..Len(inflight) : Page_EventsErr(i, Null)
  \/ \E i \in 1..Len(inflight) : Page_EventsOk(i, AllEvents(i))
  \/ Both_PastTick(FALSE)
  \/ \E i \in 1..Len(pastInflight) : Past_AlertsErr(i, Null, FALSE)
  \/ \E i \in 1..Len(pastInflight), ids \in NoneOrAll : Past_AlertsOk(i, ids, FALSE)
  \/ \E i \in 1..Len(pastInflight) : Past_EventsErr(i, Null, FALSE)
  \/ \E i \in 1..Len(pastInflight) : Past_EventsOk(i, FALSE)

SpecTimers == Init /\ [][TimersNext]_vars

\* C37: each of the two pollers has at most one live interval timer, and has
\* one only while an identity is present and the view is mounted; the timer
\* of the active-alerts poller is the one of the poller that runs.
C37_OneTimerPerPoller ==
  /\ timers \in {0, 1} /\ pastTimers \in {0, 1}
  /\ timers = 1 => (mounted /\ user # NoUser)
  /\ pastTimers = 1 => (mounted /\ user # NoUser)
  /\ intervalId <=> timers = 1

\* C37 witness: the effects ran again while a poller was running (a fetch of
\* the poller torn down is still suspended, for each of the two), and each
\* poller has its one timer.
C37_Witness ==
  /\ last.op = "effect" /\ mounted /\ user # NoUser
  /\ timers = 1 /\ pastTimers = 1
  /\ \E j \in 1..Len(inflight) : ~inflight[j].live
  /\ \E j \in 1..Len(pastInflight) : ~pastInflight[j].live

----------------------------------------------------------------------------
\* dismissAlert of src/app/page.tsx over alerts of several statuses: the
\* alerts query returns every alert that is not dismissed, and the backend may
\* hold any of them with another status than "active".  The other inputs are
\* reduced as for SpecDismiss, and the remote action fails by a returned error.

\* The rows of `list` as the backend sends them when the alerts of `others`
\* have the status "acknowledged".
WithStatus(list, others) ==
  [k \in 1..Len(list) |->
     IF list[k].id \in others
     THEN [list[k] EXCEPT !.status = "acknowledged"]
     ELSE list[k]]

\* The events lookup answers; the alerts query had returned the rows of
\* `others` with the status "acknowledged".
Sta_EventsOk(i, others) ==
  /\ inflight[i].stage = "events"
  /\ others \subseteq {inflight[i].rows[k] : k \in 1..Len(inflight[i].rows)}
  /\ Page_Commit(i, WithStatus(WithEvents(inflight[i].rows, AllEvents(i)), others))
  /\ Page_Frame

StatusNext ==
  \/ \E u \in {"u1", NoUser} : Page_Effect(u)
  \/ Page_Unmount
  \/ Dis_Tick
  \/ \E i \in 1..Len(inflight) : Page_AlertsErr(i, Null)
  \/ \E i \in 1..Len(inflight), ids \in SUBSET AlertIds : Page_AlertsOk(i, ids)
  \/ \E i \in 1..Len(inflight) : Page_EventsErr(i, Null)
  \/ \E i \in 1..Len(inflight), others \in SUBSET AlertIds : Sta_EventsOk(i, others)
  \/ \E alertId \in AlertIds : dismissAlert(alertId)
  \/ \E i \in 1..Len(dismissReqs) : Dismiss_Ok(i)
  \/ \E i \in 1..Len(dismissReqs) : Dismiss_Err(i, Null, "returned")

SpecStatus == Init /\ [][StatusNext]_vars

\* C38: dismissAlert is started only for an alert that is in the alerts list
\* with the status "active"; for a listed alert of another status no
\* dismissAlert call can start.
C38_DismissOnlyActive ==
  [][/\ last'.op = "dismiss" =>
          \E k \in 1..Len(alerts) :
            alerts[k].id = last'.alert /\ alerts[k].status = "active"
     /\ \A k \in 1..Len(alerts) :
          alerts[k].status # "active" => ~ENABLED dismissAlert(alerts[k].id)]_vars

\* C38 witness: the list on display holds an alert of the status
\* "acknowledged" next to the active alert whose dismissal was just started.
C38_Witness ==
  /\ last.op = "dismiss" /\ mounted /\ user # NoUser
  /\ \E k \in 1..Len(alerts) : alerts[k].status = "acknowledged"
  /\ \E k \in 1..Len(alerts) :
       alerts[k].id = last.alert /\ alerts[k].status = "active"

----------------------------------------------------------------------------
\* SupabaseProvider of src/unnamed/part_005: the effect has run (getSession
\* was called and the auth-state listener subscribed).  The auth client is the
\* environment: it reads its session for the getSession call at some moment,
\* resolves the call later, and delivers each change of its session to the
\* subscribed listener.

\* Number of auth-state-change events.
MaxAuthEvents == 3

Prv_Frame == UNCHANGED <<user, mounted, intervalId, inflight, alerts,
                         loadingAlerts, alertsError, isFirstLoadRef,
                         seenAlertIdsRef, knownAlertIdsRef, soundEnabled,
                         pollerSound, succeeded, everCompleted, dismissVars,
                         mediaVars, res, backendDismissed, pastVars, timers,
                         pastTimers>>

\* The session object the auth client hands out in state a: null without a
\* user, else the object its latest event produced.
SessionOf(a) == IF a.user = NoUser THEN NoSession ELSE a

\* .then(({ data }) => { if (!isMounted) return; setSession(data.session ?? null) })
ThenSetsSession(isMounted, data, current) ==
  IF isMounted THEN data ELSE current

\* The auth client reads its session for the pending getSession call.
Prv_GetSessionReads ==
  /\ getSessionCall.pc = "reading"
  /\ getSessionCall' = [pc |-> "read", data |-> SessionOf(authState)]
  /\ last' = [NoLast EXCEPT !.op = "getSessionReads"]
  /\ UNCHANGED <<authState, session, providerMounted>>
  /\ Prv_Frame

\* The getSession promise resolves: the then-callback runs.
Prv_GetSessionThen ==
  /\ getSessionCall.pc = "read"
  /\ session' = ThenSetsSession(providerMounted, getSessionCall.data, session)
  /\ getSessionCall' = [pc |-> "done", data |-> NoSession]
  /\ last' = [NoLast EXCEPT !.op = "getSessionThen",
                            !.overtaken = (getSessionCall.data # SessionOf(authState))]
  /\ UNCHANGED <<authState, providerMounted>>
  /\ Prv_Frame

\* The session of the auth client changes to one of user u (sign-in, sign-out,
\* token refresh): onAuthStateChange((_event, newSession) => setSession(newSession)),
\* as long as the listener is subscribed.
Prv_AuthChange(u) ==
  /\ authState.n < MaxAuthEvents
  /\ authState' = [user |-> u, n |-> authState.n + 1]
  /\ session' = IF providerMounted THEN SessionOf(authState') ELSE session
  /\ last' = [NoLast EXCEPT !.op = "authChange"]
  /\ UNCHANGED <<providerMounted, getSessionCall>>
  /\ Prv_Frame

\* The cleanup of the effect: isMounted = false; subscription.unsubscribe().
Prv_Unmount ==
  /\ providerMounted
  /\ providerMounted' = FALSE
  /\ last' = [NoLast EXCEPT !.op = "providerUnmount"]
  /\ UNCHANGED <<authState, session, getSessionCall>>
  /\ Prv_Frame

ProviderNext ==
  \/ Prv_GetSessionReads
  \/ Prv_GetSessionThen
  \/ \E u \in Users \cup {NoUser} : Prv_AuthChange(u)
  \/ Prv_Unmount

SpecProvider == Init /\ [][ProviderNext]_vars

\* C39 as stated: while the provider is mounted, once an auth state has been
\* delivered to it (the getSession result or an event), its session is the
\* most recent one of the auth client, so the getSession result is never
\* applied over the session of a later event; and after the unmount no step
\* changes the session.
C39_SessionIsLatest ==
  [][/\ (providerMounted' /\ last'.op \in {"getSessionThen", "authChange"})
          => session' = SessionOf(authState')
     /\ ~providerMounted => session' = session]_vars

====
